---- MODULE Spec2Model ----
(***************************************************************************)
(* Model of the TCP ingestion engine of backend/src/tcp_server.rs: the     *)
(* accept loop of TcpServer::start, the cleanup of the spawned handler     *)
(* tasks, run_watchdog, stop, disconnect_client and allow_reconnect, over  *)
(* the shared registry maps.                                               *)
(*                                                                         *)
(* Granularity.  Every `.await` on a registry lock is a suspension point,  *)
(* so every lock acquisition is one atomic step; the steps of different    *)
(* tasks interleave freely (main.rs runs them on the multi-threaded tokio  *)
(* runtime).  The write guard on connection_handles is the only guard the  *)
(* code keeps across further awaits (the `if let` scrutinee of the         *)
(* duplicate branch and of disconnect_client, the `let mut handles` of     *)
(* stop); its owner is the variable handles_lock.  Log-sink awaits change  *)
(* no registry state and are folded into the step that follows them.       *)
(*                                                                         *)
(* Abort.  AbortHandle::abort marks the task cancelled; a task suspended   *)
(* at an await is dropped there, a task being polled on another worker     *)
(* runs on until its next suspension.  An aborted task therefore either    *)
(* takes further steps or is dropped (TaskDropped).                        *)
(*                                                                         *)
(* Inputs.  Accepted sockets, admin commands and idle periods come from    *)
(* the environment and are bounded (MaxConns, MaxAdmin, MaxElapse).        *)
(***************************************************************************)
EXTENDS Integers, Sequences, FiniteSets, TLC

\* ------------------------------------------------------------------ bounds
\* IP addresses; sockets accepted past the blacklist check; admin commands that
\* take effect; periods of more than INACTIVITY_TIMEOUT_SECS without a read.
NumIPs == 2
MaxConns == 2
MaxAdmin == 2
MaxElapse == 1

IPs == 1..NumIPs
TaskIds == 1..MaxConns

\* --------------------------------------------------------------- constants
INACTIVITY_TIMEOUT_SECS == 180
LimbBase == 65536

\* ------------------------------------------------ AtomicU64 (four 16-bit limbs)
\* A u64 is <<l3, l2, l1, l0>>, most significant limb first.
U64Zero == <<0, 0, 0, 0>>
U64Max == <<LimbBase - 1, LimbBase - 1, LimbBase - 1, LimbBase - 1>>

U64OfNat(n) == <<0, 0, n \div LimbBase, n % LimbBase>>

IsSmall(v) == v[1] = 0 /\ v[2] = 0

\* The value as a natural number when it fits two limbs, and -1 otherwise.
U64Small(v) == IF IsSmall(v) THEN v[3] * LimbBase + v[4] ELSE -1

\* AtomicU64::fetch_add(1): wrapping.
WrappingAdd1(v) ==
    IF v[4] < LimbBase - 1 THEN <<v[1], v[2], v[3], v[4] + 1>>
    ELSE IF v[3] < LimbBase - 1 THEN <<v[1], v[2], v[3] + 1, 0>>
    ELSE IF v[2] < LimbBase - 1 THEN <<v[1], v[2] + 1, 0, 0>>
    ELSE IF v[1] < LimbBase - 1 THEN <<v[1] + 1, 0, 0, 0>>
    ELSE U64Zero

\* AtomicU64::fetch_sub(1): wrapping (0 - 1 = 2^64 - 1).
WrappingSub1(v) ==
    IF v[4] > 0 THEN <<v[1], v[2], v[3], v[4] - 1>>
    ELSE IF v[3] > 0 THEN <<v[1], v[2], v[3] - 1, LimbBase - 1>>
    ELSE IF v[2] > 0 THEN <<v[1], v[2] - 1, LimbBase - 1, LimbBase - 1>>
    ELSE IF v[1] > 0 THEN <<v[1] - 1, LimbBase - 1, LimbBase - 1, LimbBase - 1>>
    ELSE U64Max

\* ------------------------------------------------------------------- state
VARIABLES
    is_running,             \* AtomicBool
    active_connections,     \* AtomicU64
    total_connection_count, \* AtomicU64 (only ever incremented, by the acceptor)
    connected_clients,      \* Vec<String>: sequence of IPs
    connection_handles,     \* HashMap<String, AbortHandle>: IP -> task id, 0 = no entry
    unique_plcs,            \* HashSet<String>
    blacklisted_ips,        \* HashSet<String>
    ip_to_id,               \* HashMap<String, u64>: IP -> conn_id, 0 = no entry
    connection_health,      \* HashMap<String, ConnectionHealth>
    handles_lock,           \* owner of the connection_handles write guard
    acc,                    \* the accept loop of start(): position and locals; history:
                            \* old (the handle contains_key saw), dup (the old handle
                            \* was removed and aborted), seq (this accept follows
                            \* disconnect_client; allow_reconnect of its IP or,
                            \* if refused, the return of disconnect_client)
    task,                   \* the spawned handler tasks
    wd,                     \* run_watchdog: position and locals
    adm,                    \* the admin command in progress (web_server serialises them)
    removals,               \* history: per connection, removals carried out on it
    phase,                  \* history: per IP, progress of disconnect; allow_reconnect
    first_id,               \* history: per IP, conn_id of its first health record
    env,                    \* inputs consumed so far: admin commands, idle periods
    rx,                     \* one connection's receive loop (handle_client_connection):
                            \* its locals, its health record, the socket's stream
    chan,                   \* the broadcast channel tx and its subscriber (main.rs)
    boot,                   \* start(): the bind retry loop, up to the accept loop
    plc,                    \* the task spawned by connect_to_plc: its loop and locals
    dec,                    \* one call of parse_plc_packet: its argument and result
    lk                      \* the registry locks: who holds and who waits for each

vars == <<is_running, active_connections, total_connection_count,
          connected_clients, connection_handles, unique_plcs, blacklisted_ips,
          ip_to_id, connection_health, handles_lock, acc, task, wd, adm,
          removals, phase, first_id, env, rx, chan, boot, plc,
          dec, lk>>

\* What the registry model leaves alone.
aside == <<rx, chan, boot, plc, dec, lk>>

registry == <<connected_clients, connection_handles, unique_plcs,
              blacklisted_ips, ip_to_id, connection_health>>

\* ConnectionHealth; `present` tells an entry from no entry, `owner` is history:
\* the connection (task id) the record was inserted for.
NoHealth ==
    [present |-> FALSE, conn_id |-> 0, idle |-> 0,
     removal_in_progress |-> FALSE, owner |-> 0]

NewHealth(id, t) ==
    [present |-> TRUE, conn_id |-> id, idle |-> 0,
     removal_in_progress |-> FALSE, owner |-> t]

NoTask == [pc |-> "none", ip |-> 0, aborted |-> FALSE]

AccIdle(pc, next) ==
    [pc |-> pc, ip |-> 0, conn_id |-> 0, dup |-> FALSE, old |-> 0,
     seq |-> FALSE, next_id |-> next]

WdAt(pc) == [pc |-> pc, dead |-> {}, ip |-> 0, owner |-> 0]

AdmIdle == [pc |-> "idle", ip |-> 0, target |-> 0, added |-> FALSE]

\* Vec::retain(|x| x != ip)
RECURSIVE Retain(_, _)
Retain(s, ip) ==
    IF s = <<>> THEN <<>>
    ELSE IF Head(s) = ip THEN Retain(Tail(s), ip)
    ELSE <<Head(s)>> \o Retain(Tail(s), ip)

Occurrences(s, ip) == Cardinality({i \in 1..Len(s) : s[i] = ip})

\* AbortHandle::abort() on task t (0: no task); a finished task is not affected.
Abort(tk, t) ==
    IF t = 0 \/ tk[t].pc = "done" THEN tk ELSE [tk EXCEPT ![t].aborted = TRUE]

\* Task t is over: it ran to the end of its body, or was dropped.
Finish(tk, t) == [tk EXCEPT ![t] = [pc |-> "done", ip |-> 0, aborted |-> FALSE]]

Spawned == {t \in TaskIds : task[t].pc # "none"}

\* No connection's receive loop is followed byte by byte.
RxOff == [pc |-> "off"]

\* The broadcast channel is not followed.
ChanOff == [pc |-> "off"]

\* The bind loop of start() is not followed: the port is bound at once.
BootOff == [pc |-> "off"]

\* connect_to_plc has not been called.
PlcOff == [pc |-> "off"]

\* No call of parse_plc_packet is followed value by value.
DecOff == [pc |-> "off"]

\* The registry locks are not followed one by one.
LkOff == [pc |-> "off"]

\* TcpServer::new
ServerNew ==
    /\ is_running = FALSE
    /\ active_connections = U64Zero
    /\ total_connection_count = 0
    /\ connected_clients = <<>>
    /\ connection_handles = [x \in IPs |-> 0]
    /\ unique_plcs = {}
    /\ blacklisted_ips = {}
    /\ ip_to_id = [x \in IPs |-> 0]
    /\ connection_health = [x \in IPs |-> NoHealth]
    /\ handles_lock = "free"
    /\ acc = AccIdle("new", 1)
    /\ task = [t \in TaskIds |-> NoTask]
    /\ wd = WdAt("off")
    /\ adm = AdmIdle
    /\ removals = [t \in TaskIds |-> 0]
    /\ phase = [x \in IPs |-> 0]
    /\ first_id = [x \in IPs |-> 0]
    /\ env = [admin |-> 0, elapse |-> 0]

Init ==
    /\ ServerNew
    /\ rx = RxOff
    /\ chan = ChanOff
    /\ boot = BootOff
    /\ plc = PlcOff
    /\ dec = DecOff
    /\ lk = LkOff


\* ------------------------------------------------- start(): the accept loop
\* start() up to the accept loop: sets the running flag, binds, spawns the
\* watchdog, next_id = 1.
Start ==
    /\ acc.pc = "new"
    /\ is_running' = TRUE
    /\ acc' = AccIdle("loop", 1)
    /\ wd' = WdAt("check")
    /\ UNCHANGED <<active_connections, total_connection_count, registry,
                   handles_lock, task, adm, removals, phase, first_id, env>>
    /\ UNCHANGED aside

\* while self.is_running.load(..)
AccLoop ==
    /\ acc.pc = "loop"
    /\ acc' = AccIdle(IF is_running THEN "accept" ELSE "exit", acc.next_id)
    /\ UNCHANGED <<is_running, active_connections, total_connection_count,
                   registry, handles_lock, task, wd, adm, removals, phase,
                   first_id, env>>
    /\ UNCHANGED aside

\* Err(_): the 1-second accept timeout.
AccTimeout ==
    /\ acc.pc = "accept"
    /\ acc' = [acc EXCEPT !.pc = "loop"]
    /\ UNCHANGED <<is_running, active_connections, total_connection_count,
                   registry, handles_lock, task, wd, adm, removals, phase,
                   first_id, env>>
    /\ UNCHANGED aside

\* A blacklist check that lets every peer through.
IsBlacklistedNever(ip) == ip \notin IPs

\* self.blacklisted_ips.read().await.contains(&ip)
IsBlacklisted(ip) == ip \in blacklisted_ips

\* An accepted socket from a blacklisted IP: drop(socket); continue.
\* (`ip` still names the refused peer when the loop condition is next read.)
AccRefuse ==
    /\ acc.pc = "accept"
    /\ \E x \in IPs :
        /\ IsBlacklisted(x)
        /\ acc' = [acc EXCEPT !.pc = "loop", !.ip = x,
                              !.seq = (phase[x] = 1)]
    /\ UNCHANGED <<is_running, active_connections, total_connection_count,
                   registry, handles_lock, task, wd, adm, removals, phase,
                   first_id, env>>
    /\ UNCHANGED aside

\* An accepted socket that passes the blacklist check.
AccPass ==
    /\ acc.pc = "accept"
    /\ Cardinality(Spawned) < MaxConns
    /\ \E x \in IPs :
        /\ ~IsBlacklisted(x)
        /\ acc' = [acc EXCEPT !.pc = "dupcheck", !.ip = x,
                              !.seq = (phase[x] = 2)]
        /\ phase' = [phase EXCEPT ![x] = IF @ = 2 THEN 0 ELSE @]
    /\ UNCHANGED <<is_running, active_connections, total_connection_count,
                   registry, handles_lock, task, wd, adm, removals, first_id, env>>
    /\ UNCHANGED aside

\* if self.connection_handles.read().await.contains_key(&ip)
AccDupCheck ==
    /\ acc.pc = "dupcheck"
    /\ handles_lock = "free"
    /\ acc' = IF connection_handles[acc.ip] # 0
              THEN [acc EXCEPT !.pc = "dupkill",
                               !.old = connection_handles[acc.ip]]
              ELSE [acc EXCEPT !.pc = "health"]
    /\ UNCHANGED <<is_running, active_connections, total_connection_count,
                   registry, handles_lock, task, wd, adm, removals, phase,
                   first_id, env>>
    /\ UNCHANGED aside

\* if let Some(old_handle) = self.connection_handles.write().await.remove(&ip)
\* { old_handle.abort(); ...  -- the write guard lives to the end of the block.
AccDupKill ==
    /\ acc.pc = "dupkill"
    /\ handles_lock = "free"
    /\ IF connection_handles[acc.ip] # 0
       THEN /\ task' = Abort(task, connection_handles[acc.ip])
            /\ connection_handles' = [connection_handles EXCEPT ![acc.ip] = 0]
            /\ handles_lock' = "acc"
            /\ acc' = [acc EXCEPT !.pc = "duphealth", !.dup = TRUE]
       ELSE /\ acc' = [acc EXCEPT !.pc = "health"]
            /\ UNCHANGED <<task, connection_handles, handles_lock, env>>
    /\ UNCHANGED <<is_running, active_connections, total_connection_count,
                   connected_clients, unique_plcs, blacklisted_ips, ip_to_id,
                   connection_health, wd, adm, removals, phase, first_id, env>>
    /\ UNCHANGED aside

\* self.connection_health.write().await.remove(&ip); then the 100 ms sleep begins.
AccDupHealth ==
    /\ acc.pc = "duphealth"
    /\ connection_health' = [connection_health EXCEPT ![acc.ip] = NoHealth]
    /\ acc' = [acc EXCEPT !.pc = "dupsleep"]
    /\ UNCHANGED <<is_running, active_connections, total_connection_count,
                   connected_clients, connection_handles, unique_plcs,
                   blacklisted_ips, ip_to_id, handles_lock, task, wd, adm,
                   removals, phase, first_id, env>>
    /\ UNCHANGED aside

\* The sleep ends and the block's write guard is dropped.
AccDupWake ==
    /\ acc.pc = "dupsleep"
    /\ handles_lock' = "free"
    /\ acc' = [acc EXCEPT !.pc = "health"]
    /\ UNCHANGED <<is_running, active_connections, total_connection_count,
                   registry, task, wd, adm, removals, phase, first_id, env>>
    /\ UNCHANGED aside

\* An id assignment that gives every admission a fresh id.
AssignIdFresh(idmap, ip, next) == next

\* The conn_id of an admission: the existing id of the IP, else next_id.
AssignId(idmap, ip, next) == IF idmap[ip] # 0 THEN idmap[ip] ELSE next

\* let conn_id = { .. };  self.connection_health.write().await.insert(ip.clone(),
\* ConnectionHealth {..}).  ip_to_id and next_id are read and written by the
\* accept loop alone, so the id assignment is one step with the insert.
AccHealth ==
    /\ acc.pc = "health"
    /\ LET id == AssignId(ip_to_id, acc.ip, acc.next_id) IN
        /\ ip_to_id' = IF ip_to_id[acc.ip] # 0 THEN ip_to_id
                       ELSE [ip_to_id EXCEPT ![acc.ip] = id]
        /\ connection_health' =
             [connection_health EXCEPT
                ![acc.ip] = NewHealth(id, Cardinality(Spawned) + 1)]
        /\ first_id' = IF first_id[acc.ip] = 0
                       THEN [first_id EXCEPT ![acc.ip] = id]
                       ELSE first_id
        /\ acc' = [acc EXCEPT !.pc = "client", !.conn_id = id,
                      !.next_id = IF ip_to_id[acc.ip] # 0 THEN @ ELSE @ + 1]
    /\ UNCHANGED <<is_running, active_connections, total_connection_count,
                   connected_clients, connection_handles, unique_plcs,
                   blacklisted_ips, handles_lock, task, wd, adm, removals,
                   phase, env>>
    /\ UNCHANGED aside

\* self.connected_clients.write().await.push(ip.clone())
AccClient ==
    /\ acc.pc = "client"
    /\ connected_clients' = Append(connected_clients, acc.ip)
    /\ acc' = [acc EXCEPT !.pc = "count"]
    /\ UNCHANGED <<is_running, active_connections, total_connection_count,
                   connection_handles, unique_plcs, blacklisted_ips, ip_to_id,
                   connection_health, handles_lock, task, wd, adm, removals,
                   phase, first_id, env>>
    /\ UNCHANGED aside

\* self.unique_plcs.write().await.insert(ip.clone());
\* active_connections.fetch_add(1); total_connection_count.fetch_add(1);
\* tokio::spawn(async move { handle_client_connection(..).await; cleanup }).
\* unique_plcs and total_connection_count are written by the accept loop alone
\* and the new task is known to nobody before its handle is stored.
AccCount ==
    /\ acc.pc = "count"
    /\ unique_plcs' = unique_plcs \cup {acc.ip}
    /\ active_connections' = WrappingAdd1(active_connections)
    /\ total_connection_count' = total_connection_count + 1
    /\ task' = [task EXCEPT ![Cardinality(Spawned) + 1] =
                    [pc |-> "run", ip |-> acc.ip, aborted |-> FALSE]]
    /\ acc' = [acc EXCEPT !.pc = "store"]
    /\ UNCHANGED <<is_running, connected_clients, connection_handles,
                   blacklisted_ips, ip_to_id, connection_health, handles_lock,
                   wd, adm, removals, phase, first_id, env>>
    /\ UNCHANGED aside

\* self.connection_handles.write().await.insert(ip, connection_handle.abort_handle())
AccStore ==
    /\ acc.pc = "store"
    /\ handles_lock = "free"
    /\ connection_handles' =
         [connection_handles EXCEPT ![acc.ip] = Cardinality(Spawned)]
    /\ acc' = AccIdle("loop", acc.next_id)
    /\ UNCHANGED <<is_running, active_connections, total_connection_count,
                   connected_clients, unique_plcs, blacklisted_ips, ip_to_id,
                   connection_health, handles_lock, task, wd, adm, removals,
                   phase, first_id, env>>
    /\ UNCHANGED aside

Acceptor ==
    \/ Start \/ AccLoop \/ AccTimeout \/ AccRefuse \/ AccPass \/ AccDupCheck
    \/ AccDupKill \/ AccDupHealth \/ AccDupWake \/ AccHealth \/ AccClient
    \/ AccCount \/ AccStore


\* ------------------------------------- the spawned task: handler and cleanup
\* Ok(Ok(n)), n > 0: the handler's update of its IP's health record
\* (last_data_received = now; the record's is_alive, last_error, total_bytes and
\* packet_count decide nothing in the registry and are not carried).
HealthOnData(h) == IF h.present THEN [h EXCEPT !.idle = 0] ELSE h

HandlerData(t) ==
    /\ task[t].pc = "run"
    /\ connection_health' =
         [connection_health EXCEPT ![task[t].ip] = HealthOnData(@)]
    /\ UNCHANGED <<is_running, active_connections, total_connection_count,
                   connected_clients, connection_handles, unique_plcs,
                   blacklisted_ips, ip_to_id, handles_lock, acc, task, wd, adm,
                   removals, phase, first_id, env>>
    /\ UNCHANGED aside

\* handle_client_connection returns Normal (Ok(Ok(0))), Timeout (inactivity,
\* three read timeouts) or Error (Ok(Err(e))): no write the registry model carries.
HandlerExit(t) ==
    /\ task[t].pc = "run"
    /\ task' = [task EXCEPT ![t].pc = "exited"]
    /\ UNCHANGED <<is_running, active_connections, total_connection_count,
                   registry, handles_lock, acc, wd, adm, removals, phase,
                   first_id, env>>
    /\ UNCHANGED aside

\* if !server.is_running.load(..) { return ConnectionResult::ServerStopped; }
HandlerExitStopped(t) ==
    /\ task[t].pc = "run"
    /\ ~is_running
    /\ task' = [task EXCEPT ![t].pc = "exited"]
    /\ UNCHANGED <<is_running, active_connections, total_connection_count,
                   registry, handles_lock, acc, wd, adm, removals, phase,
                   first_id, env>>
    /\ UNCHANGED aside

\* The test-and-set of removal_in_progress a remover performs on record h.
MayRemove(h) == h.present /\ ~h.removal_in_progress

\* let should_cleanup = { .. }
CleanupCheck(t) ==
    /\ task[t].pc = "exited"
    /\ IF MayRemove(connection_health[task[t].ip])
       THEN /\ connection_health' =
                 [connection_health EXCEPT
                    ![task[t].ip].removal_in_progress = TRUE]
            /\ task' = [task EXCEPT ![t].pc = "c_clients"]
       ELSE /\ task' = Finish(task, t)
            /\ UNCHANGED connection_health
    /\ UNCHANGED <<is_running, active_connections, total_connection_count,
                   connected_clients, connection_handles, unique_plcs,
                   blacklisted_ips, ip_to_id, handles_lock, acc, wd, adm,
                   removals, phase, first_id, env>>
    /\ UNCHANGED aside

\* server.connected_clients.write().await.retain(|x| x != &ip_clone)
CleanupClients(t) ==
    /\ task[t].pc = "c_clients"
    /\ connected_clients' = Retain(connected_clients, task[t].ip)
    /\ task' = [task EXCEPT ![t].pc = "c_handles"]
    /\ UNCHANGED <<is_running, active_connections, total_connection_count,
                   connection_handles, unique_plcs, blacklisted_ips, ip_to_id,
                   connection_health, handles_lock, acc, wd, adm, removals,
                   phase, first_id, env>>
    /\ UNCHANGED aside

\* server.connection_handles.write().await.remove(&ip_clone)
CleanupHandles(t) ==
    /\ task[t].pc = "c_handles"
    /\ handles_lock = "free"
    /\ connection_handles' = [connection_handles EXCEPT ![task[t].ip] = 0]
    /\ task' = [task EXCEPT ![t].pc = "c_health"]
    /\ UNCHANGED <<is_running, active_connections, total_connection_count,
                   connected_clients, unique_plcs, blacklisted_ips, ip_to_id,
                   connection_health, handles_lock, acc, wd, adm, removals,
                   phase, first_id, env>>
    /\ UNCHANGED aside

\* server.connection_health.write().await.remove(&ip_clone)
CleanupHealth(t) ==
    /\ task[t].pc = "c_health"
    /\ connection_health' = [connection_health EXCEPT ![task[t].ip] = NoHealth]
    /\ task' = [task EXCEPT ![t].pc = "c_dec"]
    /\ UNCHANGED <<is_running, active_connections, total_connection_count,
                   connected_clients, connection_handles, unique_plcs,
                   blacklisted_ips, ip_to_id, handles_lock, acc, wd, adm,
                   removals, phase, first_id, env>>
    /\ UNCHANGED aside

\* server.active_connections.fetch_sub(1, ..): the stored value.
CleanupDec(t) ==
    /\ task[t].pc = "c_dec"
    /\ active_connections' = WrappingSub1(active_connections)
    /\ removals' = [removals EXCEPT ![t] = @ + 1]
    /\ task' = Finish(task, t)
    /\ UNCHANGED <<is_running, total_connection_count, registry, handles_lock,
                   acc, wd, adm, phase, first_id, env>>
    /\ UNCHANGED aside

\* An aborted task is dropped at a suspension point.
TaskDropped(t) ==
    /\ task[t].aborted
    /\ task[t].pc \notin {"none", "done"}
    /\ task' = Finish(task, t)
    /\ UNCHANGED <<is_running, active_connections, total_connection_count,
                   registry, handles_lock, acc, wd, adm, removals, phase,
                   first_id, env>>
    /\ UNCHANGED aside

Handler ==
    \E t \in TaskIds :
        \/ HandlerData(t) \/ HandlerExit(t)
        \/ HandlerExitStopped(t) \/ CleanupCheck(t) \/ CleanupClients(t)
        \/ CleanupHandles(t) \/ CleanupHealth(t) \/ CleanupDec(t)
        \/ TaskDropped(t)

\* ------------------------------------------------------------- run_watchdog
\* More than INACTIVITY_TIMEOUT_SECS pass without a read on any connection.
\* (An admission in progress takes less than that: lock waits, one log call and
\* the 100 ms pause.)
Elapse ==
    /\ env.elapse < MaxElapse
    /\ acc.pc \in {"loop", "accept", "exit"}
    /\ env' = [env EXCEPT !.elapse = @ + 1]
    /\ \E x \in IPs : connection_health[x].present
                      /\ connection_health[x].idle <= INACTIVITY_TIMEOUT_SECS
    /\ connection_health' =
         [x \in IPs |->
            IF connection_health[x].present
            THEN [connection_health[x] EXCEPT
                    !.idle = INACTIVITY_TIMEOUT_SECS + 1]
            ELSE connection_health[x]]
    /\ UNCHANGED <<is_running, active_connections, total_connection_count,
                   connected_clients, connection_handles, unique_plcs,
                   blacklisted_ips, ip_to_id, handles_lock, acc, task, wd, adm,
                   removals, phase, first_id>>
    /\ UNCHANGED aside

\* The filter of the dead_ips scan.
IsDead(h) ==
    h.present /\ ~h.removal_in_progress /\ h.idle > INACTIVITY_TIMEOUT_SECS

WdAfter(dead) == IF dead = {} THEN "check" ELSE "reap"

\* while self.is_running.load(..)
WdCheck ==
    /\ wd.pc = "check"
    /\ wd' = [wd EXCEPT !.pc = IF is_running THEN "tick" ELSE "exit"]
    /\ UNCHANGED <<is_running, active_connections, total_connection_count,
                   registry, handles_lock, acc, task, adm, removals, phase,
                   first_id, env>>
    /\ UNCHANGED aside

\* interval.tick().await; let dead_ips = { .. }
WdTick ==
    /\ wd.pc = "tick"
    /\ LET dead == {x \in IPs : IsDead(connection_health[x])} IN
         wd' = [wd EXCEPT !.dead = dead, !.pc = WdAfter(dead)]
    /\ UNCHANGED <<is_running, active_connections, total_connection_count,
                   registry, handles_lock, acc, task, adm, removals, phase,
                   first_id, env>>
    /\ UNCHANGED aside

\* for ip in dead_ips { let should_remove = { .. }
WdLatch ==
    /\ wd.pc = "reap"
    /\ \E x \in wd.dead :
        IF MayRemove(connection_health[x])
        THEN /\ connection_health' =
                  [connection_health EXCEPT ![x].removal_in_progress = TRUE]
             /\ wd' = [wd EXCEPT !.dead = @ \ {x}, !.ip = x,
                                 !.owner = connection_health[x].owner,
                                 !.pc = "w_handles"]
        ELSE /\ wd' = [wd EXCEPT !.dead = @ \ {x}, !.pc = WdAfter(wd.dead \ {x})]
             /\ UNCHANGED connection_health
    /\ UNCHANGED <<is_running, active_connections, total_connection_count,
                   connected_clients, connection_handles, unique_plcs,
                   blacklisted_ips, ip_to_id, handles_lock, acc, task, adm,
                   removals, phase, first_id, env>>
    /\ UNCHANGED aside

\* Ok(mut handles) => if let Some(handle) = handles.remove(&ip) { handle.abort() }
WdHandles ==
    /\ wd.pc = "w_handles"
    /\ handles_lock = "free"
    /\ task' = Abort(task, connection_handles[wd.ip])
    /\ connection_handles' = [connection_handles EXCEPT ![wd.ip] = 0]
    /\ wd' = [wd EXCEPT !.pc = "w_health"]
    /\ UNCHANGED <<is_running, active_connections, total_connection_count,
                   connected_clients, unique_plcs, blacklisted_ips, ip_to_id,
                   connection_health, handles_lock, acc, adm, removals, phase,
                   first_id, env>>
    /\ UNCHANGED aside

\* Err(_) => continue: the guard was held elsewhere for the whole 5 seconds.
WdLockTimeout ==
    /\ wd.pc = "w_handles"
    /\ handles_lock # "free"
    /\ wd' = [wd EXCEPT !.pc = WdAfter(wd.dead), !.ip = 0, !.owner = 0]
    /\ UNCHANGED <<is_running, active_connections, total_connection_count,
                   registry, handles_lock, acc, task, adm, removals, phase,
                   first_id, env>>
    /\ UNCHANGED aside

\* self.connection_health.write().await.remove(&ip)
WdHealth ==
    /\ wd.pc = "w_health"
    /\ connection_health' = [connection_health EXCEPT ![wd.ip] = NoHealth]
    /\ wd' = [wd EXCEPT !.pc = "w_clients"]
    /\ UNCHANGED <<is_running, active_connections, total_connection_count,
                   connected_clients, connection_handles, unique_plcs,
                   blacklisted_ips, ip_to_id, handles_lock, acc, task, adm,
                   removals, phase, first_id, env>>
    /\ UNCHANGED aside

\* self.connected_clients.write().await.retain(|x| x != &ip)
WdClients ==
    /\ wd.pc = "w_clients"
    /\ connected_clients' = Retain(connected_clients, wd.ip)
    /\ wd' = [wd EXCEPT !.pc = "w_dec"]
    /\ UNCHANGED <<is_running, active_connections, total_connection_count,
                   connection_handles, unique_plcs, blacklisted_ips, ip_to_id,
                   connection_health, handles_lock, acc, task, adm, removals,
                   phase, first_id, env>>
    /\ UNCHANGED aside

\* self.active_connections.fetch_sub(1, ..)
WdDec ==
    /\ wd.pc = "w_dec"
    /\ active_connections' = WrappingSub1(active_connections)
    /\ removals' = IF wd.owner = 0 THEN removals
                   ELSE [removals EXCEPT ![wd.owner] = @ + 1]
    /\ wd' = [wd EXCEPT !.pc = WdAfter(wd.dead), !.ip = 0, !.owner = 0]
    /\ UNCHANGED <<is_running, total_connection_count, registry, handles_lock,
                   acc, task, adm, phase, first_id, env>>
    /\ UNCHANGED aside

Watchdog ==
    \/ Elapse \/ WdCheck \/ WdTick \/ WdLatch \/ WdHandles \/ WdLockTimeout
    \/ WdHealth \/ WdClients \/ WdDec


\* ------------------------------------------------------------ admin commands
\* An admin command on IP x interrupts a disconnect; allow_reconnect; accept
\* sequence that is being followed (history only).
Interrupt(a, x) == IF a.ip = x \/ x = 0 THEN [a EXCEPT !.seq = FALSE] ELSE a

\* A disconnect_client that inserts nothing into the blacklist.
BlacklistNothing(bl, x) == bl

\* disconnect_client: self.blacklisted_ips.write().await.insert(client_ip)
Blacklist(bl, x) == bl \cup {x}

DiscBegin ==
    /\ adm.pc = "idle"
    /\ env.admin < MaxAdmin
    /\ env' = [env EXCEPT !.admin = @ + 1]
    /\ \E x \in IPs :
        /\ blacklisted_ips' = Blacklist(blacklisted_ips, x)
        /\ adm' = [adm EXCEPT !.pc = "d_handles", !.ip = x,
                              !.added = x \notin blacklisted_ips]
        /\ phase' = [phase EXCEPT ![x] = 0]
        /\ acc' = Interrupt(acc, x)
    /\ UNCHANGED <<is_running, active_connections, total_connection_count,
                   connected_clients, connection_handles, unique_plcs, ip_to_id,
                   connection_health, handles_lock, task, wd, removals,
                   first_id>>
    /\ UNCHANGED aside

\* if let Some(handle) = self.connection_handles.write().await.remove(client_ip)
\* { handle.abort(); ..   else { Err(..) }
DiscHandles ==
    /\ adm.pc = "d_handles"
    /\ handles_lock = "free"
    /\ IF connection_handles[adm.ip] # 0
       THEN /\ task' = Abort(task, connection_handles[adm.ip])
            /\ connection_handles' = [connection_handles EXCEPT ![adm.ip] = 0]
            /\ handles_lock' = "adm"
            /\ adm' = [adm EXCEPT !.pc = "d_health",
                                  !.target = connection_handles[adm.ip]]
            /\ UNCHANGED phase
       ELSE /\ adm' = AdmIdle
            /\ phase' = [phase EXCEPT ![adm.ip] = 1]
            /\ UNCHANGED <<task, connection_handles, handles_lock, env>>
    /\ UNCHANGED <<is_running, active_connections, total_connection_count,
                   connected_clients, unique_plcs, blacklisted_ips, ip_to_id,
                   connection_health, acc, wd, removals, first_id, env>>
    /\ UNCHANGED aside

\* self.connection_health.write().await.remove(client_ip)
DiscHealth ==
    /\ adm.pc = "d_health"
    /\ connection_health' = [connection_health EXCEPT ![adm.ip] = NoHealth]
    /\ adm' = [adm EXCEPT !.pc = "d_clients"]
    /\ UNCHANGED <<is_running, active_connections, total_connection_count,
                   connected_clients, connection_handles, unique_plcs,
                   blacklisted_ips, ip_to_id, handles_lock, acc, task, wd,
                   removals, phase, first_id, env>>
    /\ UNCHANGED aside

\* self.connected_clients.write().await.retain(|ip| ip != client_ip)
DiscClients ==
    /\ adm.pc = "d_clients"
    /\ connected_clients' = Retain(connected_clients, adm.ip)
    /\ adm' = [adm EXCEPT !.pc = "d_dec"]
    /\ UNCHANGED <<is_running, active_connections, total_connection_count,
                   connection_handles, unique_plcs, blacklisted_ips, ip_to_id,
                   connection_health, handles_lock, acc, task, wd, removals,
                   phase, first_id, env>>
    /\ UNCHANGED aside

\* self.active_connections.fetch_sub(1, ..)
DiscDec ==
    /\ adm.pc = "d_dec"
    /\ active_connections' = WrappingSub1(active_connections)
    /\ removals' = [removals EXCEPT ![adm.target] = @ + 1]
    /\ adm' = [adm EXCEPT !.pc = "d_log"]
    /\ UNCHANGED <<is_running, total_connection_count, registry, handles_lock,
                   acc, task, wd, phase, first_id, env>>
    /\ UNCHANGED aside

\* log_to_db(..).await; Ok(..): the write guard is dropped on return.
DiscReturn ==
    /\ adm.pc = "d_log"
    /\ handles_lock' = "free"
    /\ phase' = [phase EXCEPT ![adm.ip] = 1]
    /\ adm' = AdmIdle
    /\ UNCHANGED <<is_running, active_connections, total_connection_count,
                   registry, acc, task, wd, removals, first_id, env>>
    /\ UNCHANGED aside

\* An allow_reconnect that empties the blacklist.
UnblacklistAll(bl, x) == {}

\* allow_reconnect: self.blacklisted_ips.write().await.remove(client_ip)
Unblacklist(bl, x) == bl \ {x}

AllowReconnectOk ==
    /\ adm.pc = "idle"
    /\ env.admin < MaxAdmin
    /\ env' = [env EXCEPT !.admin = @ + 1]
    /\ \E x \in blacklisted_ips :
        /\ blacklisted_ips' = Unblacklist(blacklisted_ips, x)
        /\ phase' = [phase EXCEPT ![x] = IF @ = 1 THEN 2 ELSE 0]
    /\ UNCHANGED <<is_running, active_connections, total_connection_count,
                   connected_clients, connection_handles, unique_plcs, ip_to_id,
                   connection_health, handles_lock, acc, task, wd, adm,
                   removals, first_id>>
    /\ UNCHANGED aside

\* allow_reconnect of an IP that is not blacklisted: Err, nothing written.
AllowReconnectErr ==
    /\ adm.pc = "idle"
    /\ \E x \in IPs \ blacklisted_ips : UNCHANGED vars

\* stop on a stopped server: Err, nothing written.
StopNotRunning ==
    /\ adm.pc = "idle"
    /\ ~is_running
    /\ UNCHANGED vars

\* stop: self.is_running.store(false, ..)
StopBegin ==
    /\ adm.pc = "idle"
    /\ is_running
    /\ env.admin < MaxAdmin
    /\ env' = [env EXCEPT !.admin = @ + 1]
    /\ is_running' = FALSE
    /\ adm' = [adm EXCEPT !.pc = "s_handles"]
    /\ acc' = Interrupt(acc, 0)
    /\ UNCHANGED <<active_connections, total_connection_count, registry,
                   handles_lock, task, wd, removals, phase, first_id>>
    /\ UNCHANGED aside

\* let mut handles = self.connection_handles.write().await;
\* for (ip, handle) in handles.drain() { handle.abort(); }
StopHandles ==
    /\ adm.pc = "s_handles"
    /\ handles_lock = "free"
    /\ task' = [t \in TaskIds |->
                  IF \E x \in IPs : connection_handles[x] = t
                  THEN Abort(task, t)[t] ELSE task[t]]
    /\ connection_handles' = [x \in IPs |-> 0]
    /\ handles_lock' = "adm"
    /\ adm' = [adm EXCEPT !.pc = "s_health"]
    /\ UNCHANGED <<is_running, active_connections, total_connection_count,
                   connected_clients, unique_plcs, blacklisted_ips, ip_to_id,
                   connection_health, acc, wd, removals, phase, first_id, env>>
    /\ UNCHANGED aside

\* self.connection_health.write().await.clear()
StopHealth ==
    /\ adm.pc = "s_health"
    /\ connection_health' = [x \in IPs |-> NoHealth]
    /\ adm' = [adm EXCEPT !.pc = "s_active"]
    /\ UNCHANGED <<is_running, active_connections, total_connection_count,
                   connected_clients, connection_handles, unique_plcs,
                   blacklisted_ips, ip_to_id, handles_lock, acc, task, wd,
                   removals, phase, first_id, env>>
    /\ UNCHANGED aside

\* self.active_connections.store(0, ..)
StopActive ==
    /\ adm.pc = "s_active"
    /\ active_connections' = U64Zero
    /\ adm' = [adm EXCEPT !.pc = "s_clients"]
    /\ UNCHANGED <<is_running, total_connection_count, registry, handles_lock,
                   acc, task, wd, removals, phase, first_id, env>>
    /\ UNCHANGED aside

\* self.connected_clients.write().await.clear()
StopClients ==
    /\ adm.pc = "s_clients"
    /\ connected_clients' = <<>>
    /\ adm' = [adm EXCEPT !.pc = "s_log"]
    /\ UNCHANGED <<is_running, active_connections, total_connection_count,
                   connection_handles, unique_plcs, blacklisted_ips, ip_to_id,
                   connection_health, handles_lock, acc, task, wd, removals,
                   phase, first_id, env>>
    /\ UNCHANGED aside

\* log_to_db(..).await; Ok(..): `handles` goes out of scope.
StopReturn ==
    /\ adm.pc = "s_log"
    /\ handles_lock' = "free"
    /\ adm' = AdmIdle
    /\ UNCHANGED <<is_running, active_connections, total_connection_count,
                   registry, acc, task, wd, removals, phase, first_id, env>>
    /\ UNCHANGED aside

Admin ==
    \/ DiscBegin \/ DiscHandles \/ DiscHealth \/ DiscClients \/ DiscDec
    \/ DiscReturn \/ AllowReconnectOk \/ AllowReconnectErr \/ StopNotRunning
    \/ StopBegin \/ StopHandles \/ StopHealth \/ StopActive \/ StopClients
    \/ StopReturn

\* ------------------------------------------------------------ specification
Next == Acceptor \/ Handler \/ Watchdog \/ Admin

Spec == Init /\ [][Next]_vars

TypeOK ==
    /\ is_running \in BOOLEAN
    /\ handles_lock \in {"free", "acc", "adm"}
    /\ \A x \in IPs : connection_handles[x] \in 0..MaxConns


\* ---------------------------------------------------------------- properties
InHealth(x) == connection_health[x].present
InHandles(x) == connection_handles[x] # 0
InClients(x) == Occurrences(connected_clients, x) > 0

LiveTasks == {t \in TaskIds : task[t].pc = "run"}

\* stop has been called: the accept loop, the watchdog and the handlers are
\* about to end.
Stopped == acc.pc # "new" /\ ~is_running

\* No admission, handler cleanup, watchdog reap, disconnect_client or stop is
\* part-way through its steps, no abort is still to take effect and, after
\* stop, every task has come to its end.
Quiescent ==
    /\ acc.pc \in {"new", "loop", "accept", "exit"}
    /\ wd.pc \in {"off", "check", "tick", "exit"}
    /\ adm.pc = "idle"
    /\ \A t \in TaskIds : task[t].pc \in {"none", "run", "done"}
                          /\ ~task[t].aborted
    /\ Stopped => acc.pc = "exit" /\ wd.pc = "exit" /\ LiveTasks = {}

\* A removal of the connection now registered for x has been requested: its
\* task has left the handler or was aborted, the watchdog is reaping x,
\* disconnect_client(x) is running, or stop was called.
RemovalRequested(x) ==
    \/ ~is_running
    \/ adm.ip = x
    \/ wd.ip = x
    \/ task[connection_handles[x]].pc # "run"
    \/ task[connection_handles[x]].aborted

\* C1 (I1): in every quiescent state, for every IP x, x has a health record
\* iff x has an abort handle iff x occurs in connected_clients.
C1_RegistryConsistent ==
    Quiescent =>
        \A x \in IPs : /\ InHealth(x) <=> InHandles(x)
                       /\ InHandles(x) <=> InClients(x)

\* C2: the removal of every admitted connection is carried out exactly once:
\* never twice by two paths and, once its task is over and the system is
\* quiescent (stop aside, which clears the registry wholesale), never zero times.
C2_RemovedExactlyOnce ==
    /\ \A t \in TaskIds : removals[t] <= 1
    /\ (Quiescent /\ is_running) =>
           \A t \in TaskIds : task[t].pc = "done" => removals[t] = 1

\* C3 (P3): active_connections never goes below zero: the stored 64-bit value
\* never wraps, so it stays between 0 and the number of admissions.
C3_ActiveNeverWraps ==
    /\ active_connections # U64Max
    /\ U64Small(active_connections) \in 0..total_connection_count

\* C4 (P1): once the handle of x is stored and no removal of that connection
\* has been requested, x is in connection_health, connection_handles,
\* connected_clients and unique_plcs.
C4_AdmittedIsRegistered ==
    \A x \in IPs :
        (InHandles(x) /\ ~RemovalRequested(x)) =>
            InHealth(x) /\ InClients(x) /\ x \in unique_plcs

\* C5 (I5): at quiescence active_connections equals the number of entries of
\* connected_clients and the number of live handler tasks.
C5_ActiveEqualsClients ==
    Quiescent =>
        /\ U64Small(active_connections) = Len(connected_clients)
        /\ U64Small(active_connections) = Cardinality(LiveTasks)

\* C6: when an accept arrives for an IP that has a handle (which the acceptor
\* removes and aborts), then when the admission completes connected_clients
\* holds the IP exactly once, with one health record and one handle.
C6_DuplicateListedOnce ==
    [][(acc.pc = "store" /\ acc.dup /\ acc'.pc = "loop") =>
          /\ Occurrences(connected_clients', acc.ip) = 1
          /\ connection_health'[acc.ip].present
          /\ connection_handles'[acc.ip] # 0]_vars

\* C7 (I3): when an accept occurs for an IP that is in connection_handles, the
\* old handle has been aborted and removed and the old health record removed
\* by the time the new health record is registered (the new connected_clients
\* entry and the new handle are registered after it).
C7_OldRemovedBeforeNew ==
    [][(acc.pc = "health" /\ acc.old # 0 /\ acc'.pc = "client") =>
          /\ connection_handles[acc.ip] = 0
          /\ ~connection_health[acc.ip].present
          /\ (task[acc.old].aborted \/ task[acc.old].pc = "done")]_vars

\* C8 (I2, L3): from the return of disconnect_client(x) until allow_reconnect(x)
\* x stays blacklisted, no accept from x passes the blacklist check, and the
\* refusal writes none of ip_to_id, connection_health, connection_handles,
\* connected_clients, unique_plcs, active_connections, total_connection_count
\* and spawns no task.
C8_BlacklistHonored ==
    [][\A x \in IPs :
          /\ phase'[x] = 1 => x \in blacklisted_ips'
          /\ (phase[x] = 1 /\ acc.pc = "accept" /\ acc'.ip = x) =>
                /\ acc'.pc = "loop"
                /\ UNCHANGED <<ip_to_id, connection_health, connection_handles,
                               connected_clients, unique_plcs,
                               active_connections, total_connection_count,
                               task>>]_vars

\* C8 witness: an accept from x was refused after disconnect_client(x) returned.
C8_Witness ==
    \E x \in IPs : /\ phase[x] = 1 /\ acc.pc = "loop" /\ acc.ip = x /\ acc.seq
                   /\ x \in unique_plcs /\ x \in blacklisted_ips
                   /\ ~InHandles(x) /\ ~InHealth(x) /\ ~InClients(x)
                   /\ env.admin = 1 /\ active_connections = U64Zero

\* C9 (I4, P4): once set, ip_to_id[x] never changes and is never removed, and
\* every health record of x carries that conn_id, the one of x's first record.
C9_ConnIdStable ==
    [][\A x \in IPs :
          /\ ip_to_id[x] # 0 => ip_to_id'[x] = ip_to_id[x]
          /\ connection_health'[x].present =>
                /\ connection_health'[x].conn_id = ip_to_id'[x]
                /\ connection_health'[x].conn_id = first_id'[x]]_vars

\* C9 witness: x was admitted, removed and admitted again, and the record of
\* its second connection carries the conn_id of the first.
C9_Witness ==
    \E x \in IPs :
        /\ connection_health[x].present
        /\ connection_health[x].owner >= 2
        /\ unique_plcs = {x}
        /\ connection_health[x].conn_id = first_id[x]
        /\ acc.next_id = 2

\* C10 (L2): disconnect_client(x); allow_reconnect(x); accept from x ends with x
\* admitted (health record, handle, connected_clients entry, not blacklisted)
\* under the conn_id of its first admission, the new connection's own removal
\* not having been requested.
C10_ReconnectAdmitted ==
    [][\A x \in IPs :
          (acc.pc = "store" /\ acc.seq /\ acc.ip = x /\ acc'.pc = "loop"
           /\ ~RemovalRequested(x)') =>
             /\ connection_health'[x].present
             /\ connection_health'[x].conn_id = first_id[x]
             /\ connection_handles'[x] # 0
             /\ Occurrences(connected_clients', x) >= 1
             /\ x \notin blacklisted_ips']_vars

\* The accept loop is part-way through admitting a socket from x.
Admitting(x) ==
    /\ acc.ip = x
    /\ acc.pc \in {"dupcheck", "dupkill", "duphealth", "dupsleep", "health",
                   "client", "count", "store"}

\* Connection t is the only connection from x that exists: no other task
\* serves x and the accept loop is admitting no other socket from x.
SoleConnection(t, x) ==
    /\ \A t2 \in TaskIds \ {t} : task[t2].ip # x
    /\ Admitting(x) => (acc.pc = "store" /\ Cardinality(Spawned) = t)

\* The IP of connection t at the step that completes its removal.
RemovedIp(t) ==
    IF adm.pc = "d_dec" /\ adm.target = t THEN adm.ip
    ELSE IF wd.pc = "w_dec" /\ wd.owner = t THEN wd.ip
    ELSE task[t].ip

\* C11 (P2): when the removal of connection t of IP x completes (handler
\* cleanup, watchdog reap or disconnect_client) and x has no other connection,
\* x is in none of connection_health, connection_handles, connected_clients;
\* the steps of the removal paths leave ip_to_id and unique_plcs unchanged.
C11_RemovedFromRegistry ==
    [][/\ \A t \in TaskIds :
             (removals'[t] = removals[t] + 1 /\ SoleConnection(t, RemovedIp(t)))
             => LET x == RemovedIp(t) IN
                  /\ ~connection_health'[x].present
                  /\ connection_handles'[x] = 0
                  /\ Occurrences(connected_clients', x) = 0
       /\ acc' = acc => UNCHANGED <<ip_to_id, unique_plcs>>]_vars


\* ===================================================== the receive loop
\* One admitted connection followed byte by byte: handle_client_connection,
\* the cleanup of its task, and the watchdog's scan of its health record.
\* A step is one iteration of the handler's loop.  Instants are kept as ages
\* in whole seconds (Instant::elapsed().as_secs()); time passes while a read
\* is awaited.

\* --------------------------------------------------------------- constants
WORD_COUNT == 65
INT_COUNT == 65
REAL_COUNT == 257
WORD_OFFSET == 0
INT_OFFSET == WORD_COUNT * 2
REAL_OFFSET == INT_OFFSET + INT_COUNT * 2
EXPECTED_PACKET_SIZE == REAL_OFFSET + REAL_COUNT * 4
READ_TIMEOUT_SECS == 15
FRAGMENT_WARN_SECS == 30
FRAGMENT_CLEAR_SECS == 90
MAX_ACCUMULATOR_SIZE == EXPECTED_PACKET_SIZE * 3
MAX_CONSECUTIVE_TIMEOUTS == 3

\* ------------------------------------------------------------------ bounds
\* The bytes of the stream are named by their offset, kept modulo RingFrames
\* frames (and packet_count modulo RingFrames); at most MaxOdd reads have a
\* size in OddSizes.
RingFrames == 7
MaxOdd == 2

Ring == EXPECTED_PACKET_SIZE * RingFrames
\* Sizes a read may return (the buffer holds 8192 bytes) and the seconds a
\* read that returns data may take.
EvenSizes == {644, 1288, 2576}
OddSizes == {1, 1289, 3865}
Delays == {0, 10}

\* ----------------------------------------------- byte sequences (Vec<u8>)
\* A byte sequence is a sequence of runs [at, n]: n consecutive bytes of the
\* stream from offset at.
RECURSIVE RunLen(_)
RunLen(b) == IF b = <<>> THEN 0 ELSE Head(b).n + RunLen(Tail(b))

\* Vec::extend_from_slice
Extend(b, r) ==
    IF r.n = 0 THEN b
    ELSE IF b # <<>> /\ (b[Len(b)].at + b[Len(b)].n) % Ring = r.at
         THEN [b EXCEPT ![Len(b)].n = @ + r.n]
         ELSE Append(b, r)

\* The first k bytes of b, and b without them: Vec::drain(..k).
RECURSIVE Take(_, _)
Take(b, k) ==
    IF k = 0 \/ b = <<>> THEN <<>>
    ELSE IF Head(b).n <= k THEN <<Head(b)>> \o Take(Tail(b), k - Head(b).n)
    ELSE <<[at |-> Head(b).at, n |-> k]>>

RECURSIVE Drop(_, _)
Drop(b, k) ==
    IF k = 0 \/ b = <<>> THEN b
    ELSE IF Head(b).n <= k THEN Drop(Tail(b), k - Head(b).n)
    ELSE <<[at |-> (Head(b).at + k) % Ring, n |-> Head(b).n - k]>> \o Tail(b)

\* &data[off .. off + k]
Slice(b, off, k) == Take(Drop(b, off), k)

\* parse_plc_packet: Err for a short packet, else the variables, each section
\* decoded from its bytes of the packet.
parse_plc_packet(data) ==
    IF RunLen(data) < EXPECTED_PACKET_SIZE
    THEN [ok |-> FALSE]
    ELSE [ok |-> TRUE,
          word |-> Slice(data, WORD_OFFSET, WORD_COUNT * 2),
          int |-> Slice(data, INT_OFFSET, INT_COUNT * 2),
          real |-> Slice(data, REAL_OFFSET, REAL_COUNT * 4),
          size |-> RunLen(data)]

\* while accumulator.len() >= EXPECTED_PACKET_SIZE { drain(..EXPECTED_PACKET_SIZE) }:
\* the packets drained, in order, and what is left.
\* An extraction with `if` for `while`: at most one packet an iteration.
PacketsOnce(b) ==
    IF RunLen(b) >= EXPECTED_PACKET_SIZE
    THEN <<Take(b, EXPECTED_PACKET_SIZE)>>
    ELSE <<>>

\* An extraction that takes the whole accumulator as one packet.
PacketsWhole(b) == IF RunLen(b) >= EXPECTED_PACKET_SIZE THEN <<b>> ELSE <<>>

RECURSIVE Packets(_)
Packets(b) ==
    IF RunLen(b) >= EXPECTED_PACKET_SIZE
    THEN <<Take(b, EXPECTED_PACKET_SIZE)>> \o Packets(Drop(b, EXPECTED_PACKET_SIZE))
    ELSE <<>>

\* An extraction that throws away what is left after the last whole packet.
LeftoverNone(b) == <<>>

RECURSIVE Leftover(_)
Leftover(b) ==
    IF RunLen(b) >= EXPECTED_PACKET_SIZE
    THEN Leftover(Drop(b, EXPECTED_PACKET_SIZE))
    ELSE b

\* The packets that parse, as published: tx.send and latest_data.insert.
RECURSIVE Published(_)
Published(ps) ==
    IF ps = <<>> THEN <<>>
    ELSE LET r == parse_plc_packet(Head(ps)) IN
         (IF r.ok THEN <<r>> ELSE <<>>) \o Published(Tail(ps))

\* ------------------------------------------------------------------ state
\* The ConnectionHealth record inserted at admission (ages in seconds).
RxHealth ==
    [present |-> TRUE, last_data_received |-> 0, is_alive |-> TRUE,
     last_error |-> "None", removal_in_progress |-> FALSE, packet_count |-> 0]

\* handle_client_connection entered: its locals (accumulator, packet_count,
\* last_valid_packet, last_fragment_time, consecutive_timeouts), the result it
\* returns, the health record of its IP, latest_data of its IP and what the
\* last iteration sent on tx; the socket (stream: the offset of the next byte,
\* odd: odd-sized reads so far); history: read (accumulator length and size of
\* the last read), cleared (the accumulator was cleared), recent (the last
\* read outcomes, newest last), since_frame (seconds since a packet was last
\* drained), first (size of the first read), aligned (every read after the
\* first was one frame), removed_by; written: the bytes the handler has
\* written to the socket.
RxStart ==
    [pc |-> "loop", accumulator |-> <<>>, packet_count |-> 0,
     last_valid_packet |-> 0, last_fragment_time |-> 0,
     consecutive_timeouts |-> 0, result |-> "None", reason |-> "None",
     health |-> RxHealth, latest_data |-> <<>>, sent |-> <<>>,
     stream |-> 0, odd |-> 0,
     read |-> [a |-> 0, n |-> 0], cleared |-> FALSE, recent |-> <<>>,
     since_frame |-> 0, first |-> 0, aligned |-> TRUE, removed_by |-> "none",
     written |-> <<>>]

\* Everything but is_running and rx.
server == <<active_connections, total_connection_count, connected_clients,
            connection_handles, unique_plcs, blacklisted_ips, ip_to_id,
            connection_health, handles_lock, acc, task, wd, adm, removals,
            phase, first_id, env>>

\* Everything but rx.
but_rx == <<is_running, server, chan, boot, plc, dec, lk>>

\* The server is running: start() has bound the port and spawned the watchdog.
ServerUp ==
    /\ is_running = TRUE
    /\ active_connections = U64Zero
    /\ total_connection_count = 0
    /\ connected_clients = <<>>
    /\ connection_handles = [x \in IPs |-> 0]
    /\ unique_plcs = {}
    /\ blacklisted_ips = {}
    /\ ip_to_id = [x \in IPs |-> 0]
    /\ connection_health = [x \in IPs |-> NoHealth]
    /\ handles_lock = "free"
    /\ acc = AccIdle("accept", 1)
    /\ task = [t \in TaskIds |-> NoTask]
    /\ wd = WdAt("check")
    /\ adm = AdmIdle
    /\ removals = [t \in TaskIds |-> 0]
    /\ phase = [x \in IPs |-> 0]
    /\ first_id = [x \in IPs |-> 0]
    /\ env = [admin |-> 0, elapse |-> 0]

\* The server is running and the connection has just been admitted.
ConnInit ==
    /\ ServerUp
    /\ rx = RxStart
    /\ chan = ChanOff
    /\ boot = BootOff
    /\ plc = PlcOff
    /\ dec = DecOff
    /\ lk = LkOff

\* d seconds pass while the read is awaited.
Aged(r, d) ==
    [r EXCEPT !.last_valid_packet = @ + d,
              !.last_fragment_time = @ + d,
              !.since_frame = @ + d,
              !.health.last_data_received = @ + d]

\* The last three read outcomes.
Recent(q, o) == IF Len(q) < MAX_CONSECUTIVE_TIMEOUTS THEN Append(q, o)
                ELSE Append(Tail(q), o)

\* A fragment check that clears as soon as the warning threshold is passed.
FragmentsClearedAtWarn(r) ==
    IF /\ r.accumulator # <<>>
       /\ r.last_fragment_time > FRAGMENT_WARN_SECS
    THEN [r EXCEPT !.accumulator = <<>>, !.last_fragment_time = 0,
                   !.cleared = TRUE]
    ELSE r

\* Top of the loop: stale fragments are dropped -
\* if !accumulator.is_empty() && last_fragment_time.elapsed() > FRAGMENT_WARN_SECS
\*   { if .. > FRAGMENT_CLEAR_SECS { accumulator.clear(); last_fragment_time = now } }
FragmentsChecked(r) ==
    IF /\ r.accumulator # <<>>
       /\ r.last_fragment_time > FRAGMENT_WARN_SECS
       /\ r.last_fragment_time > FRAGMENT_CLEAR_SECS
    THEN [r EXCEPT !.accumulator = <<>>, !.last_fragment_time = 0,
                   !.cleared = TRUE]
    ELSE r

\* A loop that reads without the inactivity check.
ReadingUnchecked ==
    /\ rx.pc = "loop"
    /\ is_running

\* The loop goes on to read: the server runs and the inactivity check passes.
Reading ==
    /\ rx.pc = "loop"
    /\ is_running
    /\ ~(rx.last_valid_packet > INACTIVITY_TIMEOUT_SECS)

\* A read of n > 0 bytes that leaves consecutive_timeouts as it was.
ReceivedKeepsCount(r) ==
    [r EXCEPT !.last_fragment_time = 0,
              !.health = IF @.present
                         THEN [@ EXCEPT !.last_data_received = 0,
                                        !.is_alive = TRUE]
                         ELSE @]

\* ---------------------------------------------------------------- actions
\* Ok(Ok(n)), up to the overflow check: consecutive_timeouts = 0; the health
\* record, if there is one, gets last_data_received = now and is_alive = true;
\* last_fragment_time = now.
Received(r) ==
    [r EXCEPT !.consecutive_timeouts = 0,
              !.last_fragment_time = 0,
              !.health = IF @.present
                         THEN [@ EXCEPT !.last_data_received = 0,
                                        !.is_alive = TRUE]
                         ELSE @]

\* An overflow test on the bytes held before the read only.
OverflowsHeld(a, n) == a > MAX_ACCUMULATOR_SIZE

\* An overflow test that never fires.
OverflowsNever(a, n) == FALSE

\* if accumulator.len() + n > MAX_ACCUMULATOR_SIZE
Overflows(a, n) == a + n > MAX_ACCUMULATOR_SIZE

\* accumulator.clear(); continue
Overflowed(r) ==
    [r EXCEPT !.accumulator = <<>>, !.sent = <<>>, !.cleared = TRUE]

\* accumulator.extend_from_slice(&buffer[..n]); then every whole packet is
\* drained: packet_count += 1, last_valid_packet = now, the health record's
\* packet_count is set, and a packet that parses is sent and cached.
Extracted(r, bytes) ==
    LET b == Extend(r.accumulator, bytes)
        ps == Packets(b)
        out == Published(ps)
        count == (r.packet_count + Len(ps)) % RingFrames
    IN  [r EXCEPT !.accumulator = Leftover(b),
                  !.packet_count = count,
                  !.last_valid_packet = IF ps # <<>> THEN 0 ELSE @,
                  !.since_frame = IF ps # <<>> THEN 0 ELSE @,
                  !.health = IF @.present /\ ps # <<>>
                             THEN [@ EXCEPT !.packet_count = count]
                             ELSE @,
                  !.sent = out,
                  !.latest_data = IF out # <<>> THEN <<out[Len(out)]>> ELSE @]

\* Ok(Ok(n)), n > 0, after d seconds.
OnData(r, n, d) ==
    LET r0 == FragmentsChecked(r)
        a == RunLen(r0.accumulator)
        r1 == Received(Aged(r0, d))
        r2 == IF Overflows(a, n) THEN Overflowed(r1)
              ELSE Extracted(r1, [at |-> r.stream, n |-> n])
    IN  [r2 EXCEPT !.stream = (@ + n) % Ring,
                   !.odd = IF n \in OddSizes THEN @ + 1 ELSE @,
                   !.read = [a |-> a, n |-> n],
                   !.recent = Recent(@, "data"),
                   !.first = IF r.first = 0 THEN n ELSE @,
                   !.aligned = IF r.first = 0 THEN @
                               ELSE @ /\ n = EXPECTED_PACKET_SIZE]

RxRead(sizes) ==
    /\ Reading
    /\ \E n \in sizes, d \in Delays :
        /\ n \in OddSizes => rx.odd < MaxOdd
        /\ rx' = OnData(rx, n, d)
    /\ UNCHANGED but_rx

RxReadData == RxRead(EvenSizes \cup OddSizes)

\* Ok(Ok(0)): return ConnectionResult::Normal(total_bytes)
RxReadClosed ==
    /\ Reading
    /\ \E d \in Delays :
        rx' = [Aged(FragmentsChecked(rx), d) EXCEPT
                  !.pc = "exited", !.result = "Normal", !.sent = <<>>,
                  !.recent = Recent(@, "closed"), !.aligned = FALSE]
    /\ UNCHANGED but_rx

\* An I/O error on one connection that takes the server down with it.
RxReadErrorStopsServer ==
    /\ Reading
    /\ \E d \in Delays :
        rx' = [Aged(FragmentsChecked(rx), d) EXCEPT
                  !.pc = "exited", !.result = "Error", !.sent = <<>>,
                  !.recent = Recent(@, "error"), !.aligned = FALSE]
    /\ is_running' = FALSE
    /\ UNCHANGED <<server, chan, boot, plc, dec, lk>>

\* Ok(Err(e)): the health record gets is_alive = false and last_error;
\* return ConnectionResult::Error(err_msg)
RxReadError ==
    /\ Reading
    /\ \E d \in Delays :
        rx' = [Aged(FragmentsChecked(rx), d) EXCEPT
                  !.pc = "exited", !.result = "Error", !.sent = <<>>,
                  !.recent = Recent(@, "error"), !.aligned = FALSE,
                  !.health = IF @.present
                             THEN [@ EXCEPT !.is_alive = FALSE,
                                            !.last_error = "io"]
                             ELSE @]
    /\ UNCHANGED but_rx

\* A read timeout answered with one byte written to the peer.
TimedOutProbes(r) ==
    [r EXCEPT !.consecutive_timeouts = @ + 1, !.sent = <<>>,
              !.recent = Recent(@, "timeout"), !.aligned = FALSE,
              !.written = <<0>>]

\* Err(_): the read timed out after READ_TIMEOUT_SECS.  consecutive_timeouts
\* += 1; at 3 the health record gets is_alive = false and last_error and the
\* handler returns ConnectionResult::Timeout(reason).
TimedOut(r) ==
    LET c == r.consecutive_timeouts + 1
        r1 == [r EXCEPT !.consecutive_timeouts = c, !.sent = <<>>,
                        !.recent = Recent(@, "timeout"), !.aligned = FALSE]
    IN  IF c >= MAX_CONSECUTIVE_TIMEOUTS
        THEN [r1 EXCEPT !.pc = "exited", !.result = "Timeout",
                        !.reason = "read_timeouts",
                        !.health = IF @.present
                                   THEN [@ EXCEPT !.is_alive = FALSE,
                                                  !.last_error = "timeouts"]
                                   ELSE @]
        ELSE r1

RxReadTimeout ==
    /\ Reading
    /\ rx' = TimedOut(Aged(FragmentsChecked(rx), READ_TIMEOUT_SECS))
    /\ UNCHANGED but_rx

\* if !server.is_running.load() { return ConnectionResult::ServerStopped }
RxStopped ==
    /\ rx.pc = "loop"
    /\ ~is_running
    /\ rx' = [rx EXCEPT !.pc = "exited", !.result = "ServerStopped",
                        !.sent = <<>>]
    /\ UNCHANGED but_rx

\* if last_valid_packet.elapsed().as_secs() > INACTIVITY_TIMEOUT_SECS
\*   { return ConnectionResult::Timeout(..) }
RxInactive ==
    /\ rx.pc = "loop"
    /\ is_running
    /\ rx.last_valid_packet > INACTIVITY_TIMEOUT_SECS
    /\ rx' = [rx EXCEPT !.pc = "exited", !.result = "Timeout",
                        !.reason = "inactivity", !.sent = <<>>]
    /\ UNCHANGED but_rx

\* The task's cleanup after the handler has returned: should_cleanup tests
\* and sets removal_in_progress; if set here the connection is removed from
\* connected_clients, connection_handles and connection_health.
RxCleanup ==
    /\ rx.pc = "exited"
    /\ rx' = IF rx.health.present /\ ~rx.health.removal_in_progress
             THEN [rx EXCEPT !.pc = "removed", !.sent = <<>>,
                             !.health.present = FALSE,
                             !.removed_by = "handler"]
             ELSE [rx EXCEPT !.pc = "removed", !.sent = <<>>]
    /\ UNCHANGED but_rx

\* run_watchdog's scan: a record with !removal_in_progress whose
\* last_data_received is older than INACTIVITY_TIMEOUT_SECS is latched, its
\* task aborted and its entries removed (tcp-connection-dead).
RxDead(h) ==
    /\ h.present
    /\ ~h.removal_in_progress
    /\ h.last_data_received > INACTIVITY_TIMEOUT_SECS

RxWatchdog ==
    /\ is_running
    /\ rx.pc \in {"loop", "exited"}
    /\ rx' = IF RxDead(rx.health)
             THEN [rx EXCEPT !.pc = "dropped", !.sent = <<>>,
                             !.health.present = FALSE,
                             !.removed_by = "watchdog"]
             ELSE rx
    /\ UNCHANGED but_rx

\* stop(): is_running = false, the handles are aborted and connection_health
\* is cleared.  A task whose handle is registered is dropped at its read; one
\* whose handle is not yet stored runs on to the is_running check.
RxServerStop ==
    /\ is_running
    /\ rx.pc = "loop"
    /\ is_running' = FALSE
    /\ \E stored \in BOOLEAN :
        rx' = [rx EXCEPT !.pc = IF stored THEN "dropped" ELSE "loop",
                         !.sent = <<>>,
                         !.health.present = FALSE,
                         !.removed_by = "stop"]
    /\ UNCHANGED <<server, chan, boot, plc, dec, lk>>

ConnNext ==
    \/ RxReadData \/ RxReadClosed \/ RxReadError \/ RxReadTimeout
    \/ RxStopped \/ RxInactive \/ RxCleanup \/ RxWatchdog \/ RxServerStop

ConnSpec == ConnInit /\ [][ConnNext]_vars

\* ------------------------------------------------------------- properties
\* The bytes of the i-th frame of the stream (i counted modulo RingFrames).
FrameBytes(i, off, k) ==
    <<[at |-> ((i - 1) % RingFrames) * EXPECTED_PACKET_SIZE + off, n |-> k]>>

\* The frame decoded from the i-th 1288 bytes of the stream.
FrameOf(i) ==
    [ok |-> TRUE,
     word |-> FrameBytes(i, WORD_OFFSET, WORD_COUNT * 2),
     int |-> FrameBytes(i, INT_OFFSET, INT_COUNT * 2),
     real |-> FrameBytes(i, REAL_OFFSET, REAL_COUNT * 4),
     size |-> EXPECTED_PACKET_SIZE]

\* C12 (P5): as long as no accumulator clear has happened, the frames one
\* iteration publishes are, in order, the frames decoded from the next
\* 1288-byte blocks of the stream - the i-th published frame comes from
\* bytes [1288(i-1), 1288i) - however the stream is split into reads, and
\* latest_data holds the last of them.
C12_FramesInStreamOrder ==
    [][(rx.pc = "loop" /\ ~rx'.cleared /\ rx'.sent # <<>>) =>
          /\ \A j \in 1..Len(rx'.sent) :
                rx'.sent[j] = FrameOf(rx.packet_count + j)
          /\ rx'.packet_count = (rx.packet_count + Len(rx'.sent)) % RingFrames
          /\ rx'.latest_data = <<FrameOf(rx.packet_count + Len(rx'.sent))>>]_vars

\* C12 witness: a frame was published that was completed by a later read
\* than the one that began it, after odd-sized reads, with no clear so far.
C12_Witness ==
    /\ rx.sent # <<>> /\ ~rx.cleared
    /\ rx.read.a > 0 /\ rx.odd > 0
    /\ rx.packet_count >= 2

\* The step is an iteration in which the read returned data.
DataStep == rx.pc = "loop" /\ rx'.stream # rx.stream

\* C13: a read of n > 0 bytes arriving when the accumulator holds a bytes,
\* a + n <= 3864, extracts exactly (a + n) \div 1288 frames in that iteration
\* and leaves (a + n) % 1288 bytes in the accumulator.
C13_FramesPerRead ==
    [][LET a == RunLen(rx.accumulator)
           n == rx'.read.n
       IN  (DataStep /\ a + n <= MAX_ACCUMULATOR_SIZE) =>
              /\ Len(rx'.sent) = (a + n) \div EXPECTED_PACKET_SIZE
              /\ RunLen(rx'.accumulator) = (a + n) % EXPECTED_PACKET_SIZE
              /\ rx'.packet_count
                   = (rx.packet_count + (a + n) \div EXPECTED_PACKET_SIZE)
                       % RingFrames]_vars

\* C13 witness: a read of 2576 bytes on an accumulator of 644 gave two frames
\* and left 644 bytes.
C13_Witness ==
    /\ rx.read = [a |-> 644, n |-> 2576]
    /\ Len(rx.sent) = 2
    /\ RunLen(rx.accumulator) = 644

\* C14: a read of n bytes arriving when the accumulator holds a bytes with
\* a + n > 3864 empties the accumulator (the n bytes are not kept), publishes
\* no frame, leaves packet_count and latest_data as they were and leaves the
\* handler reading.
C14_OverflowDiscards ==
    [][LET a == RunLen(rx.accumulator)
           n == rx'.read.n
       IN  (DataStep /\ a + n > MAX_ACCUMULATOR_SIZE) =>
              /\ rx'.accumulator = <<>>
              /\ rx'.sent = <<>>
              /\ rx'.packet_count = rx.packet_count
              /\ rx'.health.packet_count = rx.health.packet_count
              /\ rx'.latest_data = rx.latest_data
              /\ rx'.pc = "loop" /\ rx'.result = "None"]_vars

\* C14 witness: a read overflowed an accumulator that held a fragment.
C14_Witness ==
    /\ rx.read.a > 0
    /\ rx.read.a + rx.read.n > MAX_ACCUMULATOR_SIZE
    /\ rx.accumulator = <<>> /\ rx.pc = "loop" /\ rx.cleared

\* C16 (I6): whatever a step sends on tx or stores in latest_data was decoded
\* without error from exactly 1288 bytes at the front of the accumulator (as
\* extended by the read): the j-th frame sent from bytes
\* [1288(j-1), 1288j) of it; latest_data changes only to the last frame sent.
C16_OnlyWholeFrames ==
    [][LET b == Extend(rx.accumulator, [at |-> rx.stream, n |-> rx'.read.n]) IN
       /\ rx'.sent # <<>> => DataStep
       /\ \A j \in 1..Len(rx'.sent) :
             LET f == rx'.sent[j]
                 chunk == Slice(b, (j - 1) * EXPECTED_PACKET_SIZE,
                                EXPECTED_PACKET_SIZE)
             IN  /\ f.ok
                 /\ f.size = EXPECTED_PACKET_SIZE
                 /\ j * EXPECTED_PACKET_SIZE <= RunLen(b)
                 /\ f.word \o f.int \o f.real
                      = Slice(chunk, WORD_OFFSET, WORD_COUNT * 2)
                        \o Slice(chunk, INT_OFFSET, INT_COUNT * 2)
                        \o Slice(chunk, REAL_OFFSET, REAL_COUNT * 4)
                 /\ RunLen(f.word) + RunLen(f.int) + RunLen(f.real)
                      = EXPECTED_PACKET_SIZE
       /\ rx'.latest_data # rx.latest_data =>
             /\ rx'.sent # <<>>
             /\ rx'.latest_data = <<rx'.sent[Len(rx'.sent)]>>]_vars

\* C16 witness: frames were published from an accumulator that held more than
\* whole frames: a fragment stayed behind unpublished.
C16_Witness ==
    /\ Len(rx.sent) = 2
    /\ rx.accumulator # <<>>
    /\ rx.read.a > 0 /\ rx.cleared

\* The receive loop with its task scheduled: a handler at the top of its loop
\* with the server stopped or the inactivity limit passed returns, and a task
\* whose handler has returned runs its cleanup.  What the reads return is up
\* to the peer.
ConnLive ==
    /\ ConnInit /\ [][ConnNext]_vars
    /\ WF_vars(RxStopped) /\ WF_vars(RxInactive) /\ WF_vars(RxCleanup)

\* The peer's stream is offset by one byte: its first read returned 1289
\* bytes and every read since returned one frame's worth, 1288.
Desync == rx.pc = "loop" /\ rx.first = EXPECTED_PACKET_SIZE + 1 /\ rx.aligned

\* What the last iteration published starts on a frame boundary of the stream.
SentAligned ==
    \A j \in 1..Len(rx.sent) :
        rx.sent[j].word[1].at % EXPECTED_PACKET_SIZE = 0

\* The reads go on without end: packet_count never comes to rest.
ReadsWithoutEnd == \A k \in 0..(RingFrames - 1) : []<>(rx.packet_count # k)

\* C15: when the stream is offset by one byte (a read of 1289 bytes, then
\* aligned 1288-byte reads without end), the accumulator is eventually cleared
\* and from then on every published frame is aligned with the peer's frame
\* boundaries.
C15_DesyncRecovers ==
    (<>[]Desync /\ ReadsWithoutEnd) => (<>rx.cleared /\ <>[]SentAligned)

\* The peer sent one frame and nothing else, its socket stays open and the
\* server was not stopped.
SilentPeer ==
    /\ rx.stream = EXPECTED_PACKET_SIZE /\ rx.packet_count = 1
    /\ rx.result \notin {"Normal", "Error", "ServerStopped"}
    /\ rx.removed_by # "stop"

\* C17: a peer that sent one frame and went silent stays registered until its
\* last_data_received is more than 180 s old, and the removal is the
\* watchdog's reap.
C17_SilentPeerReapedByWatchdog ==
    (SilentPeer /\ ~rx.health.present) =>
        /\ rx.removed_by = "watchdog"
        /\ rx.health.last_data_received > INACTIVITY_TIMEOUT_SECS

\* The read timeouts at the end of the last read outcomes.
RECURSIVE TrailingTimeouts(_)
TrailingTimeouts(q) ==
    IF q = <<>> \/ q[Len(q)] # "timeout" THEN 0
    ELSE 1 + TrailingTimeouts(SubSeq(q, 1, Len(q) - 1))

ThreeTimeouts == TrailingTimeouts(rx.recent) = MAX_CONSECUTIVE_TIMEOUTS

\* C18 as stated: the handler has exited with Timeout exactly when the last
\* three read outcomes are timeouts.
C18_TimeoutIffThreeTimeouts ==
    (rx.result = "Timeout") <=> ThreeTimeouts

\* C18: the handler exits with Timeout for read timeouts exactly when three
\* read timeouts occur consecutively; consecutive_timeouts counts the timeouts
\* since the last read of n > 0 bytes, so fewer than three timeouts followed
\* by such a read do not end the connection; at the third the health record
\* has is_alive = false and last_error set when the handler returns.
C18_ReadTimeoutExit ==
    /\ (rx.result = "Timeout" /\ rx.reason = "read_timeouts") <=> ThreeTimeouts
    /\ rx.result \in {"None", "Timeout"} =>
            rx.consecutive_timeouts = TrailingTimeouts(rx.recent)
    /\ (rx.recent # <<>> /\ rx.recent[Len(rx.recent)] = "data") =>
            /\ rx.consecutive_timeouts = 0
            /\ rx.reason # "read_timeouts"
    /\ ThreeTimeouts => ~rx.health.is_alive /\ rx.health.last_error = "timeouts"

\* One timeout, then a read of half a frame, then three timeouts: the handler
\* has returned Timeout 60 s after it started and 45 s after the read.
C18_Witness ==
    /\ rx.pc = "exited" /\ rx.reason = "read_timeouts"
    /\ rx.since_frame = 4 * READ_TIMEOUT_SECS
    /\ rx.health.present
    /\ rx.health.last_data_received = 3 * READ_TIMEOUT_SECS
    /\ ~rx.health.is_alive /\ rx.health.last_error = "timeouts"
    /\ RunLen(rx.accumulator) = 644

\* More than INACTIVITY_TIMEOUT_SECS since a whole frame was last drained (or
\* since the handler started), at the top of the loop of a running server.
FrameOverdue ==
    /\ rx.pc = "loop" /\ is_running
    /\ rx.since_frame > INACTIVITY_TIMEOUT_SECS

\* C19: last_valid_packet is the time since the last whole frame whatever the
\* reads in between returned, and once it is more than 180 s the next thing
\* the handler does is return Timeout: it reads nothing more.
C19_InactivityExit ==
    /\ [](rx.last_valid_packet = rx.since_frame)
    /\ [][(FrameOverdue /\ is_running' /\ rx' # rx) =>
            /\ rx'.pc = "exited" /\ rx'.result = "Timeout"
            /\ rx'.reason = "inactivity"
            /\ rx'.stream = rx.stream /\ rx'.recent = rx.recent]_vars

\* The handler has returned Timeout for inactivity although its last read
\* returned bytes: a fragment is in the accumulator and an earlier read was
\* discarded by the overflow rule.
C19_Witness ==
    /\ rx.pc = "exited" /\ rx.result = "Timeout" /\ rx.reason = "inactivity"
    /\ rx.since_frame > INACTIVITY_TIMEOUT_SECS
    /\ rx.recent[Len(rx.recent)] = "data"
    /\ rx.health.last_data_received < READ_TIMEOUT_SECS
    /\ rx.accumulator # <<>> /\ rx.cleared

\* ============================================================ disconnect
\* C20: disconnect_client(x) inserts x into blacklisted_ips before anything
\* else and x is still blacklisted when it returns.  With a handle for x it
\* aborts the task, removes x from connection_handles, connection_health and
\* connected_clients, takes one off active_connections and returns Ok: at the
\* return x has no handle and, unless the accept loop is part-way through
\* admitting another socket from x, no health record and no entry in
\* connected_clients.  Without a handle it returns Err at once and the
\* registry tables and the counter are as they were.
C20_Disconnect ==
    [][/\ (adm.pc = "idle" /\ adm'.pc = "d_handles") =>
              adm'.ip \in blacklisted_ips'
       /\ adm.pc \in {"d_handles", "d_health", "d_clients", "d_dec", "d_log"} =>
              adm.ip \in blacklisted_ips /\ adm.ip \in blacklisted_ips'
       /\ (adm.pc = "d_handles" /\ adm' # adm) =>
              IF connection_handles[adm.ip] = 0
              THEN /\ adm' = AdmIdle
                   /\ UNCHANGED <<connection_handles, connection_health,
                                  connected_clients, active_connections, task>>
              ELSE LET t == connection_handles[adm.ip] IN
                   /\ adm'.pc = "d_health" /\ adm'.ip = adm.ip
                   /\ task[t].pc # "done" => task'[t].aborted
                   /\ connection_handles'[adm.ip] = 0
       /\ (adm.pc = "d_health" /\ adm' # adm) =>
              ~connection_health'[adm.ip].present /\ adm'.pc = "d_clients"
       /\ (adm.pc = "d_clients" /\ adm' # adm) =>
              Occurrences(connected_clients', adm.ip) = 0 /\ adm'.pc = "d_dec"
       /\ (adm.pc = "d_dec" /\ adm' # adm) =>
              /\ adm'.pc = "d_log"
              /\ IF active_connections = U64Zero
                 THEN active_connections' = U64Max
                 ELSE IsSmall(active_connections) =>
                        U64Small(active_connections') =
                            U64Small(active_connections) - 1
       /\ (adm.pc = "d_log" /\ adm' # adm) =>
              /\ adm' = AdmIdle
              /\ connection_handles'[adm.ip] = 0
              /\ ~Admitting(adm.ip) =>
                    /\ ~connection_health'[adm.ip].present
                    /\ Occurrences(connected_clients', adm.ip) = 0]_vars

\* disconnect_client(x) is about to return Ok: x is blacklisted, its task is
\* aborted, it is in none of the three tables and the counter went from one
\* to zero.
C20_Witness ==
    /\ adm.pc = "d_log" /\ adm.target # 0
    /\ adm.ip \in blacklisted_ips
    /\ task[adm.target].aborted
    /\ connection_handles[adm.ip] = 0
    /\ ~connection_health[adm.ip].present
    /\ Occurrences(connected_clients, adm.ip) = 0
    /\ Cardinality(Spawned) = 1 /\ removals[adm.target] = 1
    /\ active_connections = U64Zero

\* ========================================================== admin errors
\* disconnect_client returns Err: no handle was found for its IP.
DiscErr == adm.pc = "d_handles" /\ adm' = AdmIdle

ServerTables == <<connection_handles, connection_health, connected_clients,
                  active_connections, is_running>>

\* C21 as stated: a disconnect_client that returns NotConnected leaves
\* blacklisted_ips and the tables as they were before the call.
C21_ErrorsNoEffect ==
    [][DiscErr => ~adm.added /\ UNCHANGED ServerTables]_vars

\* C21: an admin command that returns an error leaves connection_handles,
\* connection_health, connected_clients, active_connections and the running
\* flag as they were; allow_reconnect of an IP that is not blacklisted leaves
\* blacklisted_ips as it was and stop on a stopped server begins no teardown;
\* a disconnect_client that returns NotConnected has inserted its IP into
\* blacklisted_ips and leaves it there.
C21_ErrorEffects ==
    /\ [](\A x \in IPs \ blacklisted_ips :
            Unblacklist(blacklisted_ips, x) = blacklisted_ips)
    /\ [][(adm.pc = "idle" /\ adm'.pc = "d_handles") =>
            /\ UNCHANGED ServerTables
            /\ blacklisted_ips' = blacklisted_ips \cup {adm'.ip}
            /\ adm'.added = (adm'.ip \notin blacklisted_ips)]_vars
    /\ [][DiscErr =>
            /\ UNCHANGED ServerTables
            /\ UNCHANGED blacklisted_ips
            /\ adm.ip \in blacklisted_ips']_vars
    /\ [][(adm.pc = "idle" /\ ~is_running) =>
            adm'.pc # "s_handles"]_vars

\* disconnect_client(x) has returned NotConnected on a server that never
\* admitted a connection, and x is blacklisted.
C21_Witness ==
    \E x \in IPs :
        /\ adm = AdmIdle /\ phase[x] = 1
        /\ x \in blacklisted_ips
        /\ unique_plcs = {} /\ total_connection_count = 0
        /\ acc.pc = "accept"

\* ================================================================== stop
\* stop has returned Ok and everything that was in flight has come to its
\* end: the accept loop and the watchdog have left their loops, no handler
\* task is live or part-way through its cleanup, no admin command is running.
StopSettled == Stopped /\ Quiescent

\* C22: once stop has returned and the tasks in flight have run to their end,
\* the running flag is false, connection_handles, connection_health and
\* connected_clients are empty, active_connections is 0 and no handler task
\* is live.
C22_StoppedIsEmpty ==
    StopSettled =>
        /\ ~is_running
        /\ \A x \in IPs : ~InHandles(x) /\ ~InHealth(x) /\ ~InClients(x)
        /\ active_connections = U64Zero
        /\ LiveTasks = {}

\* ================================================= the broadcast channel
\* tx = broadcast::channel(1000).0 of TcpServer::new, the handler's
\* `let _ = server.tx.send(plc_data)` and the one subscriber of tx, the
\* forwarding task of main.rs (`while let Ok(data) = rx.recv().await`).
\* chan.backlog is the number of values sent since the subscriber's cursor:
\* the channel retains the newest BROADCAST_CAPACITY of them.
BROADCAST_CAPACITY == 1000

\* Frames the peer still delivers once the backlog has passed the capacity.
MaxBehind == 2

\* Whole packets one read can complete (the accumulator holds at most
\* MAX_ACCUMULATOR_SIZE bytes after extend_from_slice).
FramesPerRead == 0..(MAX_ACCUMULATOR_SIZE \div EXPECTED_PACKET_SIZE)

\* TcpServer::new keeps the Sender and drops the Receiver: no subscriber.
\* pc/pending: the handler is at its read, or has `pending` parsed packets
\* of the last read still to send; fwd: the forwarding task (new: not yet
\* subscribed, recv: in its loop, ended: loop left and Receiver dropped);
\* result: what the last send returned.
ChanStart ==
    [pc |-> "read", pending |-> 0, receivers |-> 0, fwd |-> "new",
     backlog |-> 0, result |-> "none"]

\* Values of the backlog the channel still holds, and values it has dropped.
Retained(c) == IF c.backlog > BROADCAST_CAPACITY THEN BROADCAST_CAPACITY
               ELSE c.backlog
Lost(c) == c.backlog - Retained(c)

\* A send that discards the new value when the channel is full.
SendDropsNewest(c) ==
    IF c.receivers = 0 THEN [c EXCEPT !.result = "err"]
    ELSE IF c.backlog >= BROADCAST_CAPACITY THEN [c EXCEPT !.result = "ok"]
    ELSE [c EXCEPT !.backlog = @ + 1, !.result = "ok"]

\* Sender::send: Err(SendError) when there is no receiver, otherwise the
\* value takes the next slot (the slot of the oldest retained value when
\* the channel is full) and Ok(receivers) is returned.  It is not async.
Send(c) ==
    IF c.receivers = 0 THEN [c EXCEPT !.result = "err"]
    ELSE [c EXCEPT !.backlog = @ + 1, !.result = "ok"]

\* Everything but chan.
but_chan == <<is_running, server, rx, boot, plc, dec, lk>>

\* The server is running and nothing has been published yet.
FanInit ==
    /\ ServerUp
    /\ rx = RxOff
    /\ chan = ChanStart
    /\ boot = BootOff
    /\ plc = PlcOff
    /\ dec = DecOff
    /\ lk = LkOff

\* tcp_server.subscribe(): a Receiver whose cursor is the next value sent.
FanSubscribe ==
    /\ chan.pc # "off" /\ chan.fwd = "new"
    /\ chan' = [chan EXCEPT !.fwd = "recv", !.receivers = @ + 1,
                            !.backlog = 0]
    /\ UNCHANGED but_chan

\* A read of the handler completes k whole packets, each of which parses.
FanRead ==
    /\ chan.pc = "read"
    /\ chan.backlog < BROADCAST_CAPACITY + MaxBehind
    /\ \E k \in FramesPerRead :
        chan' = [chan EXCEPT !.pending = k,
                            !.pc = IF k > 0 THEN "publish" ELSE "read",
                            !.result = "none"]
    /\ UNCHANGED but_chan

\* let _ = server.tx.send(plc_data); the loop goes on to the next packet or,
\* after the last, to the next read.
FanSend ==
    /\ chan.pc = "publish"
    /\ chan' = [Send(chan) EXCEPT !.pending = @ - 1,
                                  !.pc = IF chan.pending = 1 THEN "read"
                                         ELSE "publish"]
    /\ UNCHANGED but_chan

\* rx.recv().await of the forwarding task: waits while its backlog is empty;
\* Ok(data) is forwarded (plc_tx.send); Err(Lagged), when values of its
\* backlog have been dropped, ends `while let Ok(..)`: the task returns and
\* its Receiver is dropped.
FanRecv ==
    /\ chan.fwd = "recv"
    /\ chan.backlog > 0
    /\ chan' = IF Lost(chan) > 0
               THEN [chan EXCEPT !.fwd = "ended", !.receivers = @ - 1,
                                 !.backlog = 0]
               ELSE [chan EXCEPT !.backlog = @ - 1]
    /\ UNCHANGED but_chan

FanNext == FanSubscribe \/ FanRead \/ FanSend \/ FanRecv

FanSpec == FanInit /\ [][FanNext]_vars

\* A send in progress: the handler takes one packet off its pending ones.
SendStep == chan.pc = "publish" /\ chan'.pending = chan.pending - 1

\* C23: publishing never blocks the handler.  Whenever the handler has a
\* packet to publish the send can take place at once, with no subscriber,
\* with a subscriber that keeps up and with one that is behind by the whole
\* capacity or more; the send takes the packet off the handler's hands and
\* after the last packet the handler is back at its read; with a full
\* channel the subscriber's oldest retained value is dropped for the new one.
C23_SendNeverBlocks ==
    /\ [](chan.pc = "publish" => ENABLED FanSend)
    /\ [][SendStep =>
            /\ chan.pending = 1 => chan'.pc = "read"
            /\ chan.receivers = 0 => chan'.result = "err" /\ Lost(chan') = 0
            /\ (chan.receivers > 0 /\ chan.backlog >= BROADCAST_CAPACITY) =>
                  /\ chan'.result = "ok"
                  /\ Retained(chan') = BROADCAST_CAPACITY
                  /\ Lost(chan') = Lost(chan) + 1]_vars

\* The handler is back at its read after publishing to a subscriber that is
\* more than the capacity behind.
C23_Witness ==
    /\ chan.pc = "read" /\ chan.result = "ok"
    /\ chan.fwd = "recv" /\ chan.receivers = 1
    /\ chan.backlog > BROADCAST_CAPACITY /\ Lost(chan) >= 1

\* C37: the forwarding task keeps forwarding for as long as the server's
\* Sender exists: once subscribed it is in its receive loop, holding the one
\* Receiver of the channel, also after it has lagged and values of its backlog
\* were dropped, so that every later value sent has its receiver.
C37_ForwardsWhileSenderExists ==
    chan.pc # "off" =>
        /\ chan.fwd # "ended"
        /\ chan.fwd # "new" => chan.receivers = 1

\* =============================================================== no reply
\* C24: the handler writes nothing to the peer socket, whatever it goes
\* through (reads, decoded packets, an overflow, read timeouts, its exit and
\* removal): the bytes written are the empty sequence all along.
C24_NothingWritten ==
    rx.pc # "off" => rx.written = <<>>

\* A connection that published a packet, had a read discarded by the
\* overflow rule, timed out three times and was removed, with nothing
\* written to its peer.
C24_Witness ==
    /\ rx.pc = "removed" /\ rx.result = "Timeout"
    /\ rx.latest_data # <<>> /\ rx.cleared
    /\ rx.reason = "read_timeouts"
    /\ rx.written = <<>>

\* ====================================== start(): bind; connect_to_plc
\* start() from its first line to the accept loop, stop()'s clearing of the
\* running flag, and the task spawned by connect_to_plc, which polls the
\* same flag.  Time is in seconds.
MAX_BIND_RETRIES == 10
BIND_RETRY_SECS == 2
BACKOFF_START_SECS == 2
BACKOFF_CAP_SECS == 30

\* Failed connects in a row the environment produces.
MaxRetries == 5

\* start() called.  attempts is the local of the bind loop; history: binds
\* (calls of TcpListener::bind), slept (seconds slept between them),
\* watchdog (run_watchdog was spawned), result (what start returned).
BootStart ==
    [pc |-> "new", attempts |-> 0, binds |-> 0, slept |-> 0,
     watchdog |-> FALSE, result |-> "none"]

\* connect_to_plc called: the spawned task is at the top of its loop with
\* retry_count = 0 and backoff = 2 s.  History: last (outcome of the last
\* connect), waited (length of the last sleep), reset_from (backoff at the
\* last successful connect), sleeps (sleeps so far, up to the first four).
PlcStart ==
    [pc |-> "top", retry_count |-> 0, backoff |-> BACKOFF_START_SECS,
     last |-> "none", waited |-> 0, reset_from |-> 0, sleeps |-> 0]

\* Everything but is_running, boot and plc.
but_start == <<server, rx, chan, dec, lk>>

StartInit ==
    /\ ServerNew
    /\ rx = RxOff
    /\ chan = ChanOff
    /\ boot = BootStart
    /\ plc = PlcStart
    /\ dec = DecOff
    /\ lk = LkOff

\* self.is_running.store(true, ..)
BootFlag ==
    /\ boot.pc = "new"
    /\ is_running' = TRUE
    /\ boot' = [boot EXCEPT !.pc = "bind"]
    /\ UNCHANGED <<but_start, plc>>

\* TcpListener::bind(..) is Ok(l): break l; the watchdog is spawned and the
\* accept loop entered.
BootBindOk ==
    /\ boot.pc = "bind"
    /\ boot' = [boot EXCEPT !.pc = "accept", !.binds = @ + 1,
                            !.watchdog = TRUE]
    /\ UNCHANGED <<is_running, but_start, plc>>

\* TcpListener::bind(..) is Err(e): `Err(e) if attempts < 10` counts the
\* attempt and sleeps; otherwise `return Err(e.into())`.
BootBindErr ==
    /\ boot.pc = "bind"
    /\ boot' = IF boot.attempts < MAX_BIND_RETRIES
               THEN [boot EXCEPT !.pc = "sleep", !.binds = @ + 1,
                                 !.attempts = @ + 1]
               ELSE [boot EXCEPT !.pc = "returned", !.binds = @ + 1,
                                 !.result = "Err"]
    /\ UNCHANGED <<is_running, but_start, plc>>

\* sleep(Duration::from_secs(2)).await
BootSleep ==
    /\ boot.pc = "sleep"
    /\ boot' = [boot EXCEPT !.pc = "bind", !.slept = @ + BIND_RETRY_SECS]
    /\ UNCHANGED <<is_running, but_start, plc>>

\* while self.is_running.load(..) { .. } Ok(())
BootAcceptEnd ==
    /\ boot.pc = "accept"
    /\ ~is_running
    /\ boot' = [boot EXCEPT !.pc = "returned", !.result = "Ok"]
    /\ UNCHANGED <<is_running, but_start, plc>>

\* stop() on a running server: self.is_running.store(false, ..); the
\* registry it clears is empty here.
BootStop ==
    /\ is_running
    /\ is_running' = FALSE
    /\ UNCHANGED <<but_start, boot, plc>>

\* if !server.is_running.load(..) { break; }
PlcTop ==
    /\ plc.pc = "top"
    /\ plc' = [plc EXCEPT !.pc = IF is_running THEN "connect" ELSE "done"]
    /\ UNCHANGED <<is_running, but_start, boot>>

\* Ok(Ok(socket)): retry_count = 0; backoff = 2 s; the socket goes to
\* handle_client_connection.
PlcConnectOk ==
    /\ plc.pc = "connect"
    /\ plc' = [plc EXCEPT !.pc = "handler", !.retry_count = 0,
                          !.reset_from = plc.backoff,
                          !.backoff = BACKOFF_START_SECS, !.last = "ok"]
    /\ UNCHANGED <<is_running, but_start, boot>>

\* Ok(Err(e)) or Err(_) (10 s connect timeout): retry_count += 1
PlcConnectErr ==
    /\ plc.pc = "connect"
    /\ plc.retry_count < MaxRetries
    /\ \E o \in {"refused", "timeout"} :
        plc' = [plc EXCEPT !.pc = "sleep", !.retry_count = @ + 1, !.last = o]
    /\ UNCHANGED <<is_running, but_start, boot>>

\* handle_client_connection returns: ServerStopped (the running flag is
\* clear) breaks the loop, every other result goes on to the sleep.
PlcHandler ==
    /\ plc.pc = "handler"
    /\ \E stopped \in {~is_running, FALSE} :
        plc' = [plc EXCEPT !.pc = IF stopped THEN "done" ELSE "sleep"]
    /\ UNCHANGED <<is_running, but_start, boot>>

\* A backoff that doubles without a cap.
BackoffUncapped(b) == b * 2

\* if backoff < 30 s { backoff = min(backoff * 2, 30 s) }
Backoff(b) ==
    IF b < BACKOFF_CAP_SECS
    THEN (IF b * 2 < BACKOFF_CAP_SECS THEN b * 2 ELSE BACKOFF_CAP_SECS)
    ELSE b

\* sleep(backoff).await, then the doubling.
PlcSleep ==
    /\ plc.pc = "sleep"
    /\ plc' = [plc EXCEPT !.pc = "top", !.waited = plc.backoff,
                          !.backoff = Backoff(@),
                          !.sleeps = IF @ < 4 THEN @ + 1 ELSE @]
    /\ UNCHANGED <<is_running, but_start, boot>>

StartNext ==
    \/ BootFlag \/ BootBindOk \/ BootBindErr \/ BootSleep \/ BootAcceptEnd
    \/ BootStop
    \/ PlcTop \/ PlcConnectOk \/ PlcConnectErr \/ PlcHandler \/ PlcSleep

StartSpec == StartInit /\ [][StartNext]_vars

\* C25: the retry delay of the client loop starts at 2 s (the first sleep
\* lasts 2 s), every sleep is followed by a doubling up to the cap, the
\* delay is always one of 2, 4, 8, 16, 30, and a successful connect resets
\* it to 2 s, so the sleep that follows a connection lasts 2 s.
C25_BackoffSchedule ==
    /\ plc.backoff = 2
    /\ [](plc.backoff \in {2, 4, 8, 16, 30} /\ plc.waited \in {0, 2, 4, 8, 16, 30})
    /\ [](plc.sleeps = 1 => plc.waited = 2)
    /\ [][plc'.pc = "handler" => plc'.backoff = 2]_vars
    /\ [][(plc.pc = "sleep" /\ plc'.pc = "top") =>
            /\ plc'.waited = plc.backoff
            /\ plc'.backoff = IF plc.backoff = 30 THEN 30
                              ELSE IF plc.backoff = 16 THEN 30
                              ELSE 2 * plc.backoff
            /\ plc.last = "ok" => plc'.waited = 2]_vars
    /\ [][plc'.backoff # plc.backoff =>
            plc'.pc = "handler" \/ (plc.pc = "sleep" /\ plc'.pc = "top")]_vars

\* The delay had reached the cap, a connect succeeded, the connection ended
\* and the task slept 2 s before its next attempt.
C25_Witness ==
    /\ plc.pc = "top" /\ plc.last = "ok"
    /\ plc.reset_from = BACKOFF_CAP_SECS
    /\ plc.waited = BACKOFF_START_SECS /\ plc.backoff = 4

\* C26: when every bind fails, start has performed at most 10 binds in all
\* and slept 2 s between two binds when it returns the error, and it has
\* not spawned the watchdog or entered the accept loop.
C26_TenBindAttempts ==
    boot.result = "Err" =>
        /\ boot.binds <= 10
        /\ boot.slept = BIND_RETRY_SECS * (boot.binds - 1)
        /\ ~boot.watchdog /\ boot.pc = "returned"

\* C38: whenever start has returned, with the bind error after its retries
\* or with Ok after the accept loop ended, is_running is false:
\* get_connection_stats does not report a running server and stop returns
\* its not-running error.
C38_ReturnedIsNotRunning ==
    boot.pc = "returned" => ~is_running

\* ============================================== parse_plc_packet, by value
\* One call of parse_plc_packet on a buffer of bytes (0..255).  An f32 is
\* its sign, biased exponent and mantissa fields; `value as f64` keeps the
\* number, so the f64 of a finite f32 is written with the same fields and
\* 0.0 is F64Zero.
u16_from_be_bytes(hi, lo) == hi * 256 + lo

\* An Int read as an unsigned word.
i16_unsigned(hi, lo) == hi * 256 + lo

i16_from_be_bytes(hi, lo) ==
    IF hi * 256 + lo >= 32768 THEN hi * 256 + lo - 65536 ELSE hi * 256 + lo

f32_from_be_bytes(b0, b1, b2, b3) ==
    [sign |-> b0 \div 128,
     exp |-> (b0 % 128) * 2 + (b1 \div 128),
     man |-> (b1 % 128) * 65536 + b2 * 256 + b3]

\* f32::is_finite: neither infinite nor NaN.
is_finite(v) == v.exp # 255

F64Zero == [sign |-> 0, exp |-> 0, man |-> 0]

\* let safe_value = if value.is_finite() { value as f64 } else { 0.0 };
safe_value(v) == IF is_finite(v) THEN v ELSE F64Zero

\* parse_plc_packet: Err for fewer than EXPECTED_PACKET_SIZE bytes, else the
\* variables map (Word[i], Int[i], Real[i], _total_bytes and the counts)
\* and the length of plc_variables.  Index i of the source is i + 1 here.
parse_plc_values(data) ==
    IF Len(data) < EXPECTED_PACKET_SIZE
    THEN [ok |-> FALSE, Word |-> <<>>, Int |-> <<>>, Real |-> <<>>,
          total_bytes |-> 0, plc_variables |-> 0]
    ELSE [ok |-> TRUE,
          Word |-> [i \in 1..WORD_COUNT |->
                     LET offset == WORD_OFFSET + (i - 1) * 2
                     IN  u16_from_be_bytes(data[offset + 1], data[offset + 2])],
          Int |-> [i \in 1..INT_COUNT |->
                     LET offset == INT_OFFSET + (i - 1) * 2
                     IN  i16_from_be_bytes(data[offset + 1], data[offset + 2])],
          Real |-> [i \in 1..REAL_COUNT |->
                     LET offset == REAL_OFFSET + (i - 1) * 4
                     IN  safe_value(f32_from_be_bytes(
                             data[offset + 1], data[offset + 2],
                             data[offset + 3], data[offset + 4]))],
          total_bytes |-> Len(data),
          plc_variables |-> WORD_COUNT + INT_COUNT + REAL_COUNT]

\* The sender's side of the layout (UDT_TCP_Data): big-endian bytes of a
\* Word, an Int (two's complement) and a Real.
u16_to_be_bytes(v) == <<v \div 256, v % 256>>
i16_to_be_bytes(v) == u16_to_be_bytes((v + 65536) % 65536)
f32_to_be_bytes(v) ==
    <<v.sign * 128 + (v.exp \div 2), (v.exp % 2) * 128 + (v.man \div 65536),
      (v.man \div 256) % 256, v.man % 256>>

\* The 1288 bytes of 65 Words at offset 0, 65 Ints at offset 130 and 257
\* Reals at offset 260.
Encode(words, ints, reals) ==
    [k \in 1..EXPECTED_PACKET_SIZE |->
        LET o == k - 1 IN
        IF o < INT_OFFSET
        THEN u16_to_be_bytes(words[((o - WORD_OFFSET) \div 2) + 1])
                 [((o - WORD_OFFSET) % 2) + 1]
        ELSE IF o < REAL_OFFSET
        THEN i16_to_be_bytes(ints[((o - INT_OFFSET) \div 2) + 1])
                 [((o - INT_OFFSET) % 2) + 1]
        ELSE f32_to_be_bytes(reals[((o - REAL_OFFSET) \div 4) + 1])
                 [((o - REAL_OFFSET) % 4) + 1]]

\* Values tried at the first or the last index of each section; every other
\* index holds a value of its own.
WordSamples == {0, 1, 255, 256, 4660, 65535}
IntSamples == {-32768, -258, -1, 0, 1, 32767}
RealSamples ==
    {[sign |-> 0, exp |-> 0, man |-> 0],         \* 0.0
     [sign |-> 1, exp |-> 0, man |-> 0],         \* -0.0
     [sign |-> 0, exp |-> 0, man |-> 1],         \* least subnormal
     [sign |-> 1, exp |-> 127, man |-> 4194304], \* -1.5
     [sign |-> 0, exp |-> 254, man |-> 8388607], \* f32::MAX
     [sign |-> 0, exp |-> 255, man |-> 0],       \* +inf
     [sign |-> 1, exp |-> 255, man |-> 0],       \* -inf
     [sign |-> 0, exp |-> 255, man |-> 4194304], \* NaN
     [sign |-> 1, exp |-> 255, man |-> 1]}       \* NaN
Lengths == {0, 1, EXPECTED_PACKET_SIZE - 1, EXPECTED_PACKET_SIZE}

Pos(d, count) == IF d.last THEN count ELSE 1
Words(d) == [j \in 1..WORD_COUNT |-> IF j = Pos(d, WORD_COUNT) THEN d.w ELSE j]
Ints(d) == [j \in 1..INT_COUNT |-> IF j = Pos(d, INT_COUNT) THEN d.i ELSE -j]
Reals(d) ==
    [j \in 1..REAL_COUNT |->
        IF j = Pos(d, REAL_COUNT) THEN d.r
        ELSE [sign |-> j % 2, exp |-> j % 255, man |-> j]]

\* The buffer handed to parse_plc_packet: the first d.len bytes.
Buffer(d) == SubSeq(Encode(Words(d), Ints(d), Reals(d)), 1, d.len)

NoResult == [ok |-> FALSE, Word |-> <<>>, Int |-> <<>>, Real |-> <<>>,
             total_bytes |-> 0, plc_variables |-> 0]

\* Everything but dec.
but_dec == <<is_running, server, rx, chan, boot, plc, lk>>

DecInit ==
    /\ ServerNew
    /\ rx = RxOff
    /\ chan = ChanOff
    /\ boot = BootOff
    /\ plc = PlcOff
    /\ lk = LkOff
    /\ dec \in [pc : {"call"}, last : BOOLEAN, w : WordSamples,
                 i : IntSamples, r : RealSamples, len : Lengths,
                 out : {NoResult}]

Decode ==
    /\ dec.pc = "call"
    /\ dec' = [dec EXCEPT !.pc = "returned",
                          !.out = parse_plc_values(Buffer(dec))]
    /\ UNCHANGED but_dec

DecSpec == DecInit /\ [][Decode]_vars

\* C27: decoding the 1288 bytes of 65 Words, 65 Ints and 257 Reals written
\* big-endian at offsets 0, 130 and 260 gives back exactly those values, a
\* NaN or infinite Real as 0.0; fewer than 1288 bytes give the error and no
\* variables.
C27_DecodeRoundTrip ==
    dec.pc = "returned" =>
        IF dec.len = 1288
        THEN /\ dec.out.ok
             /\ dec.out.Word = Words(dec)
             /\ dec.out.Int = Ints(dec)
             /\ \A j \in 1..257 :
                   dec.out.Real[j] = IF Reals(dec)[j].exp = 255 THEN F64Zero
                                     ELSE Reals(dec)[j]
        ELSE /\ ~dec.out.ok
             /\ dec.out.Word = <<>> /\ dec.out.Int = <<>> /\ dec.out.Real = <<>>

\* A full buffer decoded: a negative Int at the last index, a NaN at the
\* last Real, returned as 0.0.
C27_Witness ==
    /\ dec.pc = "returned" /\ dec.out.ok /\ dec.last
    /\ dec.w = 4660 /\ dec.out.Word[WORD_COUNT] = 4660
    /\ dec.i = -258 /\ dec.out.Int[INT_COUNT] = -258
    /\ dec.r.exp = 255 /\ dec.r.man # 0
    /\ dec.out.Real[REAL_COUNT] = F64Zero

\* ---------------------------------------------- cleanup of a finished handler

\* Another handler is running for the IP of task t: a newer connection.
NewerConnection(t) ==
    {u \in TaskIds \ {t} : task[u].pc = "run" /\ ~task[u].aborted
                            /\ task[u].ip = task[t].ip}

\* C28: the cleanup of a finished handler task touches its own connection only:
\* it removes no health record and no handle that belongs to another connection
\* of the same IP and no connected_clients entry while a newer connection of
\* that IP is running, so no step of another task's cleanup takes the health
\* record of a live handler away.
C28_CleanupOwnConnection ==
    /\ [][\A t \in TaskIds :
            CleanupHealth(t) /\ InHealth(task[t].ip)
              => connection_health[task[t].ip].owner = t]_vars
    /\ [][\A t \in TaskIds :
            CleanupHandles(t) => connection_handles[task[t].ip] \in {0, t}]_vars
    /\ [][\A t \in TaskIds :
            CleanupClients(t) /\ InClients(task[t].ip)
              => NewerConnection(t) = {}]_vars
    /\ [][\A t \in LiveTasks :
            /\ ~task[t].aborted
            /\ InHealth(task[t].ip)
            /\ connection_health[task[t].ip].owner = t
            /\ \E u \in TaskIds \ {t} : CleanupHealth(u)
            => InHealth(task[t].ip)']_vars

\* ------------------------------------------------- blacklist and the registry

\* x is registered as connected in one of the three tables.
Registered(x) == InHealth(x) \/ InHandles(x) \/ InClients(x)

\* C29: in every quiescent state no IP is both blacklisted and registered as
\* connected, also when disconnect_client(x) ran while an admission of x was
\* past its blacklist check.
C29_BlacklistedNotRegistered ==
    Quiescent => \A x \in blacklisted_ips : ~Registered(x)

\* ------------------------------------------------- the removal_in_progress latch

\* The record of x carries the latch of a remover.
Latched(x) == InHealth(x) /\ connection_health[x].removal_in_progress

\* C30: a health record whose removal_in_progress latch was set is removed by
\* the remover that set it, also when the watchdog's wait for the
\* connection_handles lock expires after it has set the latch: once every
\* operation under way has come to its end no latched record is left.
C30_LatchedIsRemoved ==
    Quiescent => \A x \in IPs : ~Latched(x)

\* ============================================================ registry locks
\* The tokio RwLocks of the registry maps, followed one acquisition at a time.
\* A task's use of the locks is a sequence of sections: a section starts when
\* the task holds no registry lock and ends when it holds none again, and
\* lists the acquisitions, releases and I/O or sleep awaits in between, in the
\* order of the source.  What a task does between two sections involves no
\* lock, so the sections of a task are taken in any order.

\* connection_health, connection_handles, connected_clients, blacklisted_ips,
\* unique_plcs, ip_to_id (TcpServer fields).
Locks == {"health", "handles", "clients", "blacklist", "unique", "ids"}

\* The accept loop, a handler task, the watchdog, an admin command
\* (stop, disconnect_client, allow_reconnect) and a query.
LkProcs == {"acc", "task", "wd", "adm", "qry"}

\* x.read().await / x.write().await / timeout(5 s, x.write()).await / drop of
\* the guard / an await that performs I/O, sleeps or reads the socket.
RLock(l) == [op |-> "r", lock |-> l]
WLock(l) == [op |-> "w", lock |-> l]
TLock(l) == [op |-> "t", lock |-> l]
Unlock(l) == [op |-> "u", lock |-> l]
Await(k) == [op |-> k, lock |-> "none"]

\* A guard that is a temporary of one statement, or of a block without await.
Section(a) == <<a, Unlock(a.lock)>>

\* The duplicate branch written in the order health, handles.
DupScriptHealthFirst ==
    << WLock("health"), WLock("handles"), Unlock("handles"),
       Await("sleep"), Unlock("health") >>

\* start(), the duplicate branch: the guard of the `if let` scrutinee (277)
\* lives to the end of the block (281), across connection_health.write() (279)
\* and sleep(100 ms) (280).
DupScript ==
    << WLock("handles"), WLock("health"), Unlock("health"),
       Await("sleep"), Unlock("handles") >>

\* start(), one accepted socket: blacklist (268), contains_key (275), the
\* duplicate branch, ip_to_id (286), health (301), clients (314), unique_plcs
\* (315), unique_plcs and log_to_db (319, 337), handles (416).
AcceptSections ==
    { Section(RLock("blacklist")), Section(RLock("handles")), DupScript,
      Section(WLock("ids")), Section(WLock("health")),
      Section(WLock("clients")), Section(WLock("unique")),
      Section(RLock("unique")) \o <<Await("io")>>,
      Section(WLock("handles")) }

\* handle_client_connection and the cleanup of the spawned task: socket.read
\* and health (853, 876, 904, 981, 996), latch (353), retain (388), handles
\* (389), health (390), unique_plcs and log_to_db (393, 408).
TaskSections ==
    { <<Await("read")>> \o Section(WLock("health")),
      Section(WLock("clients")), Section(WLock("handles")),
      Section(RLock("unique")) \o <<Await("io")>> }

\* run_watchdog: tick and dead filter (443, 448), latch (480),
\* timeout(5 s, handles.write()) (502), health (514), clients and log_to_db
\* (515, 518), statistics (534, 535).
WatchdogSections ==
    { <<Await("sleep")>> \o Section(RLock("health")),
      Section(WLock("health")), Section(TLock("handles")),
      Section(WLock("clients")) \o <<Await("io")>>,
      Section(RLock("unique")) }

\* A disconnect_client written in the order health, handles.
DisconnectScriptHealthFirst ==
    << WLock("health"), WLock("handles"), Unlock("handles"),
       WLock("clients"), Unlock("clients"),
       RLock("unique"), Unlock("unique"),
       Await("io"), Unlock("health") >>

\* disconnect_client: the guard of the `if let` scrutinee (610) lives to the
\* end of the block (632), across health (612), clients (613), unique_plcs
\* (616) and log_to_db (628).
DisconnectScript ==
    << WLock("handles"), WLock("health"), Unlock("health"),
       WLock("clients"), Unlock("clients"),
       RLock("unique"), Unlock("unique"),
       Await("io"), Unlock("handles") >>

\* A stop that drops its guard on connection_handles after the drain.
StopScriptShortGuard ==
    << WLock("handles"), Unlock("handles"),
       WLock("health"), Unlock("health"),
       WLock("clients"), Unlock("clients"),
       RLock("unique"), Unlock("unique"),
       Await("io") >>

\* stop: `let mut handles` (575) lives to the return (598), across health
\* (582), clients (584), unique_plcs (590) and log_to_db (595).
StopScript ==
    << WLock("handles"), WLock("health"), Unlock("health"),
       WLock("clients"), Unlock("clients"),
       RLock("unique"), Unlock("unique"),
       Await("io"), Unlock("handles") >>

\* stop, disconnect_client (blacklist at 608, then its block) and
\* allow_reconnect (642, 644).
AdminSections ==
    { StopScript, DisconnectScript,
      Section(WLock("blacklist")) \o <<Await("io")>> }

\* get_all_known_plcs: three read guards (682, 683, 684) held together and
\* dropped in reverse order at the return.
KnownPlcsScript ==
    << RLock("clients"), RLock("blacklist"), RLock("unique"),
       Unlock("unique"), Unlock("blacklist"), Unlock("clients") >>

\* get_all_known_plcs, get_connection_health (707), get_connection_stats
\* (657), get_connected_clients (678).
QuerySections ==
    { KnownPlcsScript, Section(RLock("health")), Section(RLock("unique")),
      Section(RLock("clients")) }

ScriptsOf(p) ==
    CASE p = "acc" -> AcceptSections
      [] p = "task" -> TaskSections
      [] p = "wd" -> WatchdogSections
      [] p = "adm" -> AdminSections
      [] p = "qry" -> QuerySections

\* Everything but lk.
but_lk == <<is_running, server, rx, chan, boot, plc, dec>>

\* No task is inside a section, every lock is free.
LkStart ==
    [pc |-> "on",
     run |-> [p \in LkProcs |-> <<>>],
     pos |-> [p \in LkProcs |-> 0],
     held |-> [p \in LkProcs |-> {}],
     queue |-> [l \in Locks |-> <<>>]]

LockInit ==
    /\ ServerUp
    /\ rx = RxOff
    /\ chan = ChanOff
    /\ boot = BootOff
    /\ plc = PlcOff
    /\ dec = DecOff
    /\ lk = LkStart

\* The step task p is at in lock state s.
StepOf(s, p) == s.run[p][s.pos[p]]
At(p) == StepOf(lk, p)
Busy(p) == lk.run[p] # <<>>
Acquiring(p) == Busy(p) /\ At(p).op \in {"r", "w", "t"}
Waiting(s, p, l) == \E i \in DOMAIN s.queue[l] : s.queue[l][i] = p
Queued(p) == \E l \in Locks : Waiting(lk, p, l)

\* The locks p holds, and the tasks that hold l (as writer).
HeldIn(s, p) == {h[1] : h \in s.held[p]}
HeldBy(p) == HeldIn(lk, p)
Holders(s, l) == {q \in LkProcs : l \in HeldIn(s, q)}
Writers(s, l) == {q \in LkProcs : <<l, "w">> \in s.held[q]}

\* The lock of the step p is at can be taken now: a read guard when nobody
\* writes, a write guard when nobody holds the lock.
Free(s, p) ==
    IF StepOf(s, p).op = "r" THEN Writers(s, StepOf(s, p).lock) = {}
                             ELSE Holders(s, StepOf(s, p).lock) = {}

\* p takes the guard of the step it is at and moves on.
TakeGuard(s, p) ==
    LET l == StepOf(s, p).lock
        mode == IF StepOf(s, p).op = "r" THEN "r" ELSE "w"
    IN [s EXCEPT !.queue[l] = SelectSeq(@, LAMBDA q : q # p),
                 !.held[p] = @ \cup {<<l, mode>>},
                 !.pos[p] = @ + 1]

\* read()/write(): on a lock that is free and has no waiter the guard is taken
\* without suspending; otherwise the task joins the lock's queue (tokio's
\* RwLock is fair: waiters are served first in, first out).
Attempt(s, p) ==
    LET l == StepOf(s, p).lock IN
    IF s.queue[l] = <<>> /\ Free(s, p)
    THEN TakeGuard(s, p)
    ELSE [s EXCEPT !.queue[l] = Append(@, p)]

\* p moves on to its next step, or has finished its section.
Advance(p) ==
    IF lk.pos[p] = Len(lk.run[p])
    THEN [lk EXCEPT !.run[p] = <<>>, !.pos[p] = 0]
    ELSE [lk EXCEPT !.pos[p] = @ + 1]

\* A task comes to one of its sections and, when the section starts with an
\* acquisition, attempts it.
LkBegin(p) ==
    /\ lk.pc = "on"
    /\ ~Busy(p)
    /\ \E sc \in ScriptsOf(p) :
         LET s == [lk EXCEPT !.run[p] = sc, !.pos[p] = 1] IN
         lk' = IF sc[1].op \in {"r", "w", "t"} THEN Attempt(s, p) ELSE s
    /\ UNCHANGED but_lk

\* An acquisition inside a section.
LkAcquire(p) ==
    /\ lk.pc = "on"
    /\ Acquiring(p)
    /\ ~Queued(p)
    /\ lk' = Attempt(lk, p)
    /\ UNCHANGED but_lk

\* The task at the head of the queue is woken with its guard.
LkGrant(p) ==
    /\ lk.pc = "on"
    /\ Acquiring(p)
    /\ lk.queue[At(p).lock] # <<>>
    /\ Head(lk.queue[At(p).lock]) = p
    /\ Free(lk, p)
    /\ lk' = TakeGuard(lk, p)
    /\ UNCHANGED but_lk

\* Err(_) => continue: the 5 seconds ran out while another task held the lock;
\* the watchdog leaves the queue and ends this reap.
LkTimeout(p) ==
    /\ lk.pc = "on"
    /\ Busy(p)
    /\ At(p).op = "t"
    /\ Queued(p)
    /\ Holders(lk, At(p).lock) # {}
    /\ lk' = [lk EXCEPT
                !.queue[At(p).lock] = SelectSeq(@, LAMBDA q : q # p),
                !.run[p] = <<>>, !.pos[p] = 0]
    /\ UNCHANGED but_lk

\* The guard goes out of scope.
LkRelease(p) ==
    /\ lk.pc = "on"
    /\ Busy(p)
    /\ At(p).op = "u"
    /\ lk' = [Advance(p) EXCEPT
                !.held[p] = {h \in @ : h[1] # At(p).lock}]
    /\ UNCHANGED but_lk

\* log_to_db, sleep or socket.read completes.
LkAwait(p) ==
    /\ lk.pc = "on"
    /\ Busy(p)
    /\ At(p).op \in {"io", "sleep", "read"}
    /\ lk' = Advance(p)
    /\ UNCHANGED but_lk

LockNext ==
    \E p \in LkProcs :
        \/ LkBegin(p) \/ LkAcquire(p) \/ LkGrant(p) \/ LkTimeout(p)
        \/ LkRelease(p) \/ LkAwait(p)

LockSpec == LockInit /\ [][LockNext]_vars

\* p is ahead of q in the queue of l.
Ahead(p, q, l) ==
    \E i, j \in DOMAIN lk.queue[l] :
        i < j /\ lk.queue[l][i] = p /\ lk.queue[l][j] = q

\* The tasks suspended on a lock.
Suspended == {p \in LkProcs : Acquiring(p) /\ Waiting(lk, p, At(p).lock)}

\* p cannot go on before q has: p waits for a lock that q holds in a mode that
\* excludes p's, or that q waits for ahead of p.
WaitsFor(p, q) ==
    /\ p # q
    /\ \/ Ahead(q, p, At(p).lock)
       \/ IF At(p).op = "r" THEN q \in Writers(lk, At(p).lock)
                            ELSE q \in Holders(lk, At(p).lock)

\* C31: the tasks never deadlock on the registry locks: in no state is there a
\* cycle of tasks each waiting for a lock that the next one holds or waits for
\* ahead of it (a set of suspended tasks each of which waits for another of
\* the set).
C31_NoLockCycle ==
    lk.pc = "on" =>
        \A D \in SUBSET Suspended :
            D = {} \/ \E p \in D : \A q \in D : ~WaitsFor(p, q)

\* A task that holds one lock waits for a second one, whose holder waits in turn.
C31_Witness ==
    /\ lk.pc = "on"
    /\ \E p, q \in Suspended : \E r \in LkProcs :
        /\ WaitsFor(p, q) /\ WaitsFor(q, r)
        /\ HeldBy(p) # {} /\ HeldBy(q) # {}

\* ------------------------------------------------------ order of acquisition

\* The place of lock l in an order of locks, 0 when the order does not name it.
Place(order, l) ==
    IF \E i \in DOMAIN order : order[i] = l
    THEN CHOOSE i \in DOMAIN order : order[i] = l
    ELSE 0

\* Every acquisition of a lock of the order by a task that holds another lock
\* of the order takes the later one of the two.
Follows(order) ==
    \A p \in LkProcs :
        Acquiring(p) => \A a \in HeldBy(p) :
            Place(order, a) > 0 /\ Place(order, At(p).lock) > 0
              => Place(order, a) < Place(order, At(p).lock)

\* C32 as stated: nested acquisitions of the locks of connection_health,
\* connection_handles and connected_clients follow the order health, handles,
\* connected_clients.
C32_HealthHandlesClients ==
    lk.pc = "on" => Follows(<<"health", "handles", "clients">>)

\* C32: whenever a task holds one of the locks of connection_health,
\* connection_handles and connected_clients while acquiring another of them,
\* the acquisitions follow the order handles, then health, then
\* connected_clients, in stop, disconnect_client, the duplicate branch, the
\* handler cleanup and the watchdog.
C32_HandlesHealthClients ==
    lk.pc = "on" => Follows(<<"handles", "health", "clients">>)

\* An admin command acquires connected_clients under its guard on
\* connection_handles while the accept loop waits for that guard.
C32_Witness ==
    /\ lk.pc = "on"
    /\ "handles" \in HeldBy("adm") /\ Acquiring("adm")
    /\ At("adm").lock = "clients"
    /\ Waiting(lk, "acc", "handles")

\* ------------------------------------------------- locks held across awaits

\* p is suspended on log_to_db, a sleep or the socket read.
Suspending(p) == Busy(p) /\ At(p).op \in {"io", "sleep", "read"}

\* C33: no registry lock is held by a task that is suspended on an await that
\* performs I/O or sleeps: every guard is released before the log-sink call,
\* the socket read and any sleep.
C33_NoLockAcrossAwait ==
    lk.pc = "on" => \A p \in LkProcs : Suspending(p) => HeldBy(p) = {}

\* ------------------------------------------------------ per-connection errors

\* The read of this step returned an I/O error and the handler returned.
ErrorStep == rx.pc = "loop" /\ rx'.pc = "exited" /\ rx'.result = "Error"

C36_AccumulatorBounded ==
    /\ [](rx.pc # "off" =>
            /\ RunLen(rx.accumulator) <= MAX_ACCUMULATOR_SIZE
            /\ rx.pc = "loop" => RunLen(rx.accumulator) < EXPECTED_PACKET_SIZE)
    /\ [][DataStep /\ (rx'.accumulator # <<>>
                         \/ rx'.packet_count # rx.packet_count)
            => rx'.read.a + rx'.read.n <= MAX_ACCUMULATOR_SIZE]_vars

\* C36 witness: a read brought the accumulator from an odd fragment to more
\* than two frames, within the bound, and a fragment is left for the next read;
\* an earlier or later read was of more bytes than the accumulator may hold.
C36_Witness ==
    /\ rx.pc = "loop"
    /\ rx.read.a % (EXPECTED_PACKET_SIZE \div 2) # 0
    /\ rx.read.a + rx.read.n > 2 * EXPECTED_PACKET_SIZE
    /\ rx.read.a + rx.read.n <= MAX_ACCUMULATOR_SIZE
    /\ RunLen(rx.accumulator) = (rx.read.a + rx.read.n) % EXPECTED_PACKET_SIZE
    /\ rx.accumulator # <<>>

\* ================================================ start() after stop()
\* start(&self) and stop(&self) are public and take the server by reference:
\* after start has returned, start can be called again on the same TcpServer.
\* The registry of the first run is what stop left of it: ip_to_id,
\* unique_plcs and blacklisted_ips are not cleared.

\* start() called again once the accept loop of the last call has ended and
\* no admin command is in progress: the running flag is set, the watchdog
\* spawned, and `let mut next_id = 1u64` starts the ids of this call at 1.
Restart ==
    /\ acc.pc = "exit"
    /\ adm.pc = "idle"
    /\ is_running' = TRUE
    /\ acc' = AccIdle("loop", 1)
    /\ wd' = WdAt("check")
    /\ UNCHANGED <<active_connections, total_connection_count, registry,
                   handles_lock, task, adm, removals, phase, first_id, env>>
    /\ UNCHANGED aside

\* The accept loop with peers that are not blacklisted, the handler tasks,
\* stop, and start again.
RestartNext ==
    \/ Start \/ AccLoop \/ AccTimeout \/ AccPass \/ AccDupCheck
    \/ AccDupKill \/ AccDupHealth \/ AccDupWake \/ AccHealth \/ AccClient
    \/ AccCount \/ AccStore
    \/ Handler
    \/ StopNotRunning \/ StopBegin \/ StopHandles \/ StopHealth \/ StopActive
    \/ StopClients \/ StopReturn
    \/ Restart

RestartSpec == Init /\ [][RestartNext]_vars

\* C39: conn_ids are unique per IP, also after a stop followed by a new start
\* on the same server: two distinct IPs of ip_to_id never have the same
\* conn_id, and an IP that enters ip_to_id gets an id greater than every id
\* given before.
C39_ConnIdsUnique ==
    /\ [](\A x, y \in IPs :
            x # y /\ ip_to_id[x] # 0 => ip_to_id[x] # ip_to_id[y])
    /\ [][\A x \in IPs :
            ip_to_id[x] = 0 /\ ip_to_id'[x] # 0 =>
                \A y \in IPs : ip_to_id'[x] > ip_to_id[y]]_vars

\* ============================================================ one iteration
\* One iteration of the loop of handle_client_connection from any values of
\* its locals: Instant::elapsed() is the wall clock's, so the seconds since the
\* last append and since the last packet are inputs.

\* Seconds since last_fragment_time, around FRAGMENT_WARN_SECS and
\* FRAGMENT_CLEAR_SECS; seconds since last_valid_packet, around
\* INACTIVITY_TIMEOUT_SECS.
FragmentAges ==
    {0, FRAGMENT_WARN_SECS, FRAGMENT_WARN_SECS + 1, FRAGMENT_CLEAR_SECS,
     FRAGMENT_CLEAR_SECS + 1}
PacketAges == {INACTIVITY_TIMEOUT_SECS, INACTIVITY_TIMEOUT_SECS + 1}

\* The accumulator at the top of the loop: empty, or the first half of a frame.
Fragments == {0, EXPECTED_PACKET_SIZE \div 2}

\* The handler is at the top of its loop.  A packet is never newer than the
\* last append.
LoopInit ==
    /\ ServerUp
    /\ \E f \in Fragments, lf \in FragmentAges, lv \in FragmentAges \cup PacketAges,
          c \in 0..(MAX_CONSECUTIVE_TIMEOUTS - 1) :
        /\ lv >= lf
        /\ rx = [RxStart EXCEPT
                   !.accumulator = IF f = 0 THEN <<>> ELSE <<[at |-> 0, n |-> f]>>,
                   !.stream = f,
                   !.first = f,
                   !.last_fragment_time = lf,
                   !.last_valid_packet = lv,
                   !.since_frame = lv,
                   !.health.last_data_received = lf,
                   !.consecutive_timeouts = c]
    /\ chan = ChanOff
    /\ boot = BootOff
    /\ plc = PlcOff
    /\ dec = DecOff
    /\ lk = LkOff

\* The iteration that starts from the values drawn, and what ends the handler.
LoopNext ==
    \/ rx.recent = <<>> /\ RxReadData
    \/ rx.recent = <<>> /\ RxReadClosed
    \/ rx.recent = <<>> /\ RxReadError
    \/ rx.recent = <<>> /\ RxReadTimeout
    \/ rx.recent = <<>> /\ RxInactive
    \/ RxServerStop
    \/ RxStopped
    \/ RxCleanup

LoopSpec == LoopInit /\ [][LoopNext]_vars

\* This step is an iteration that got past the checks for a stopped server and
\* for inactivity and awaited the socket read.
ReadStep == Reading /\ rx'.recent # rx.recent

\* C35: when the accumulator is non-empty and more than FRAGMENT_CLEAR_SECS
\* have passed since the last append, the iteration empties the accumulator
\* before its read and the connection goes on reading; when more than
\* FRAGMENT_WARN_SECS but at most FRAGMENT_CLEAR_SECS have passed the read
\* finds the accumulator as it was.
C35_StaleFragments ==
    /\ [][ReadStep /\ rx.accumulator # <<>>
            /\ rx.last_fragment_time > FRAGMENT_CLEAR_SECS
          => /\ rx'.cleared
             /\ rx'.recent = <<"data">> => rx'.read.a = 0
             /\ rx'.recent = <<"timeout">>
                  => /\ rx'.accumulator = <<>>
                     /\ rx'.last_fragment_time = READ_TIMEOUT_SECS
                     /\ rx.consecutive_timeouts + 1 < MAX_CONSECUTIVE_TIMEOUTS
                          => rx'.pc = "loop"]_vars
    /\ [][ReadStep /\ rx.accumulator # <<>>
            /\ rx.last_fragment_time > FRAGMENT_WARN_SECS
            /\ rx.last_fragment_time <= FRAGMENT_CLEAR_SECS
          => /\ rx'.recent = <<"data">>
                  => rx'.read.a = RunLen(rx.accumulator)
             /\ rx'.recent # <<"data">>
                  => /\ rx'.accumulator = rx.accumulator
                     /\ ~rx'.cleared]_vars

\* The accumulator was emptied 91 s after the last append, the read that
\* followed timed out and the handler is at the top of its loop again.
C35_Witness ==
    /\ rx.pc = "loop" /\ rx.cleared /\ rx.accumulator = <<>>
    /\ rx.recent = <<"timeout">>
    /\ rx.first # 0
    /\ rx.last_fragment_time = READ_TIMEOUT_SECS
    /\ rx.last_valid_packet > FRAGMENT_CLEAR_SECS + READ_TIMEOUT_SECS

====
